---- MODULE Spec2Model ----
(***************************************************************************)
(* A model of eris-go: the splitter, the streaming Encoder (current and    *)
(* earlier version), the batch Encode function and the streaming Decoder.  *)
(*                                                                         *)
(* Sizes are counted in cells.  A cell stands for one unit of a block: a   *)
(* content byte in a leaf, a Reference or a Key in an internal node.  A    *)
(* block is a sequence of cells and a cell is a natural number: 0..255 is  *)
(* a content byte, a larger number is a value of a primitive.              *)
(*                                                                         *)
(* The primitives (Blake2b-256, ChaCha20) are random oracles sampled as    *)
(* they are asked: h is the table of the inputs asked so far and the value *)
(* of the k-th input is 255 + k.  Equal inputs have equal values, distinct *)
(* inputs distinct values (no collision), and XOR with a key stream is an  *)
(* involution.  Every object that computes carries the table as a field h. *)
(*   hash input          <<0, key>> \o data   key = 0 (unkeyed), 1 + secret *)
(*   key stream input    <<1, key, nonce, position, cell>>                 *)
(***************************************************************************)
EXTENDS Integers, Sequences, FiniteSets, TLC

\* ---------------------------------------------------------------- bounds

\* A content is at most MaxBlocks whole blocks followed by at most MaxTail
\* further cells.
MaxBlocks == 3
MaxTail == 3
\* Longest content for which failing sources are enumerated.
MaxErrLen == 5
\* Iterations of the loop of Encoder.Next after which a call counts as
\* never returning.
MaxIter == 12

\* Content byte values: 0x00 and the padding marker 0x80.
Bytes == {0, 128}
\* Convergence secrets.
Secrets == {0, 1}
\* Block sizes, in cells (arity 2 and arity 3).
BlockSizes == {4, 6}

\* ------------------------------------------------------------ primitives

ReferenceSize == 1
KeySize == 1
referenceKeyLen == ReferenceSize + KeySize

Byte(b) == b
ZeroCell == Byte(0)
PadCell == Byte(128)

\* make([]byte, n): n zero cells.
RECURSIVE Zeroes(_)
Zeroes(n) == IF n <= 0 THEN <<>> ELSE <<ZeroCell>> \o Zeroes(n - 1)

\* The value of input x under the table h, and the table after the question.
Oracle(h, x) ==
    IF \E k \in 1..Len(h) : h[k] = x
    THEN [v |-> 255 + (CHOOSE k \in 1..Len(h) : h[k] = x), h |-> h]
    ELSE [v |-> 255 + Len(h) + 1, h |-> Append(h, x)]

\* Blake2b-256 of data, keyed with key (0: unkeyed).
blake2b(key, data, h) == Oracle(h, <<0, key>> \o data)
Sum256(data, h) == blake2b(0, data, h)

\* Cell c XORed with the cell at position i of the key stream (key, nonce):
\* the cell it was made from, when c is such a XOR itself.
XorCell(key, nonce, i, c, h) ==
    IF /\ c > 255
       /\ c - 255 <= Len(h)
       /\ SubSeq(h[c - 255], 1, 4) = <<1, key, nonce, i>>
       /\ Len(h[c - 255]) = 5
    THEN [v |-> h[c - 255][5], h |-> h]
    ELSE Oracle(h, <<1, key, nonce, i, c>>)

\* chacha20.NewUnauthenticatedCipher(key, nonce).XORKeyStream(data, data),
\* from cell i on, out being the cells done.
RECURSIVE XorFrom(_, _, _, _, _, _)

\* Cell i done, x being its XOR.
XorNext(key, nonce, data, i, out, x) ==
    XorFrom(key, nonce, data, i + 1, Append(out, x.v), x.h)

XorFrom(key, nonce, data, i, out, h) ==
    IF i > Len(data) THEN [data |-> out, h |-> h]
    ELSE XorNext(key, nonce, data, i, out, XorCell(key, nonce, i, data[i], h))

XORKeyStream(key, nonce, data, h) == XorFrom(key, nonce, data, 1, <<>>, h)

\* nonce[0] = byte(level), the other eleven bytes zero.
Nonce(level) == level % 256

ZeroPair == [Reference |-> ZeroCell, Key |-> ZeroCell]

arity(blockSize) == blockSize \div referenceKeyLen

\* ---------------------------------------------------------------- source

\* An io.Reader over data that fails when it reaches cell failAt (-1: it
\* never fails), with an error "io" that is neither io.EOF nor
\* io.ErrUnexpectedEOF.  One Read delivers at most chunk cells (0: as many
\* as are asked for).  errs counts the Reads that returned the error, reads
\* every Read.
ChunkedReader(data, failAt, chunk) ==
    [data |-> data, pos |-> 0, failAt |-> failAt, chunk |-> chunk, errs |-> 0,
     reads |-> 0]

Reader(data, failAt) == ChunkedReader(data, failAt, 0)

Min(a, b) == IF a < b THEN a ELSE b

\* How many cells one Read asked for want cells delivers.
ReadLen(r, want) ==
    Min(Min(want, Len(r.data) - r.pos),
        Min(IF r.chunk > 0 THEN r.chunk ELSE want,
            IF r.failAt > r.pos THEN r.failAt - r.pos ELSE want))

\* r.Read(p) with len(p) = want: the count, the error, the reader.
Read(r, want) ==
    IF r.failAt = r.pos
    THEN [n |-> 0, err |-> "io", r |-> [r EXCEPT !.errs = @ + 1, !.reads = @ + 1]]
    ELSE IF r.pos = Len(r.data)
    THEN [n |-> 0, err |-> "EOF", r |-> [r EXCEPT !.reads = @ + 1]]
    ELSE [n |-> ReadLen(r, want), err |-> "nil",
          r |-> [r EXCEPT !.pos = r.pos + ReadLen(r, want), !.reads = @ + 1]]

\* buf with the cells r.data[pos+1 .. pos+k] copied to buf[n+1 .. n+k].
ReadInto(r, buf, n, k) ==
    SubSeq(buf, 1, n) \o SubSeq(r.data, r.pos + 1, r.pos + k)
        \o SubSeq(buf, n + k + 1, Len(buf))

\* io.ReadFull with a single Read: a short read ends it.
ReadOnce(r, buf) ==
    [n |-> Read(r, Len(buf)).n,
     err |-> IF Read(r, Len(buf)).n = Len(buf) THEN "nil"
             ELSE IF Read(r, Len(buf)).err = "io" THEN "io"
             ELSE IF Read(r, Len(buf)).n = 0 THEN "EOF" ELSE "ErrUnexpectedEOF",
     buf |-> ReadInto(r, buf, 0, Read(r, Len(buf)).n),
     r |-> Read(r, Len(buf)).r]

RECURSIVE ReadAtLeast(_, _, _)

\* One turn of io.ReadAtLeast's loop, rd being what the Read returned.
ReadStep(r, buf, n, rd) ==
    IF rd.err # "nil"
    THEN [n |-> n,
          err |-> IF n > 0 /\ rd.err = "EOF" THEN "ErrUnexpectedEOF" ELSE rd.err,
          buf |-> buf,
          r |-> rd.r]
    ELSE ReadAtLeast(rd.r, ReadInto(r, buf, n, rd.n), n + rd.n)

\* io.ReadAtLeast(r, buf, len(buf)) with n cells read so far.
ReadAtLeast(r, buf, n) ==
    IF n = Len(buf) THEN [n |-> n, err |-> "nil", buf |-> buf, r |-> r]
    ELSE ReadStep(r, buf, n, Read(r, Len(buf) - n))

\* io.ReadFull(r, buf).
ReadFull(r, buf) == ReadAtLeast(r, buf, 0)

\* -------------------------------------------------------------- splitter

\* appendPadInput without the mandatory 0x80.
appendPadInputNoMarker(buf, blockSize) == buf \o Zeroes(blockSize - Len(buf))

appendPadInput(buf, blockSize) ==
    IF Len(buf) = blockSize THEN buf
    ELSE buf \o <<PadCell>> \o Zeroes(blockSize - Len(buf) - 1)

newSplitter(r, blockSize) ==
    [r |-> r, blockSize |-> blockSize, err |-> "nil",
     buf |-> Zeroes(blockSize), done |-> FALSE]

\* splitter.Next yielding no block when the source ends on a block boundary.
splitterReadNoPadBlock(s, rd) ==
    IF rd.n = s.blockSize
    THEN [ok |-> TRUE, s |-> [s EXCEPT !.r = rd.r, !.buf = rd.buf]]
    ELSE IF rd.err = "ErrUnexpectedEOF"
    THEN [ok |-> TRUE,
          s |-> [s EXCEPT !.r = rd.r, !.done = TRUE,
                          !.buf = appendPadInput(SubSeq(rd.buf, 1, rd.n), s.blockSize)]]
    ELSE [ok |-> FALSE, s |-> [s EXCEPT !.r = rd.r, !.done = TRUE]]

\* splitter.Next after its read rd: the result and the splitter.
splitterRead(s, rd) ==
    IF rd.n = s.blockSize
    THEN [ok |-> TRUE, s |-> [s EXCEPT !.r = rd.r, !.buf = rd.buf]]
    ELSE IF rd.err = "ErrUnexpectedEOF"
    THEN [ok |-> TRUE,
          s |-> [s EXCEPT !.r = rd.r, !.done = TRUE,
                          !.buf = appendPadInput(SubSeq(rd.buf, 1, rd.n), s.blockSize)]]
    ELSE IF rd.err = "EOF"
    THEN [ok |-> TRUE,
          s |-> [s EXCEPT !.r = rd.r, !.done = TRUE,
                          !.buf = appendPadInput(<<>>, s.blockSize)]]
    ELSE [ok |-> FALSE, s |-> [s EXCEPT !.r = rd.r, !.buf = rd.buf, !.err = rd.err]]

\* splitter.Next reading the source again after an error.
splitterNextAfterError(s) ==
    IF s.done THEN [ok |-> FALSE, s |-> s]
    ELSE splitterRead(s, ReadFull(s.r, s.buf))

\* splitter.Next reading the source again after the padded block.
splitterNextAfterDone(s) ==
    IF s.err # "nil" THEN [ok |-> FALSE, s |-> s]
    ELSE splitterRead(s, ReadFull(s.r, s.buf))

\* splitter.Next: the result and the splitter after the call.
splitterNext(s) ==
    IF s.err # "nil" \/ s.done THEN [ok |-> FALSE, s |-> s]
    ELSE splitterRead(s, ReadFull(s.r, s.buf))

splitterReset(s, r) == [s EXCEPT !.r = r, !.err = "nil", !.done = FALSE]

\* --------------------------------------------------------------- encoder

\* The end of encryptLeafNode and encryptInternalNode: the block x.data
\* enciphered under key, its reference ref.
encryptedNode(key, x, ref) ==
    [block |-> x.data, refKey |-> [Reference |-> ref.v, Key |-> key.v], h |-> ref.h]

\* The reference is the unkeyed hash of the block.
encryptReference(key, x) == encryptedNode(key, x, Sum256(x.data, x.h))

\* The node is XORed with the key stream of (key, nonce).
encryptNode(key, nonce, node) ==
    encryptReference(key, XORKeyStream(key.v, nonce, node, key.h))

\* encryptLeafNode: the key is the hash of the plaintext keyed with the
\* convergence secret, the nonce is zero.
encryptLeafNode(node, secret, h) ==
    encryptNode(blake2b(1 + secret, node, h), Nonce(0), node)

\* encryptInternalNode with the reference taken of the node, not of the block.
encryptInternalNodeRefOfNode(node, level, h) ==
    LET key == Sum256(node, h)
        x == XORKeyStream(key.v, Nonce(level), node, key.h)
    IN [block |-> x.data, refKey |-> [Reference |-> key.v, Key |-> key.v], h |-> x.h]

\* encryptInternalNode: the key is the unkeyed hash of the plaintext, the
\* nonce the level (level >= 1; level <= 0 or level > 255 panics, which no
\* caller does within the bounds).
encryptInternalNode(node, level, h) ==
    encryptNode(Sum256(node, h), Nonce(level), node)

RECURSIVE concatPairs(_)
concatPairs(pairs) ==
    IF pairs = <<>> THEN <<>>
    ELSE <<Head(pairs).Reference, Head(pairs).Key>> \o concatPairs(Tail(pairs))

appendPadWithZeroes(buf, length) ==
    IF Len(buf) = length THEN buf ELSE buf \o Zeroes(length - Len(buf))

\* The node of the pairs, not filled up with zeroes.
internalNodeUnpadded(nodeReferenceKeyPairs, blockSize) ==
    concatPairs(nodeReferenceKeyPairs)

\* The node of the pairs nodeReferenceKeyPairs.
internalNode(nodeReferenceKeyPairs, blockSize) ==
    IF Len(nodeReferenceKeyPairs) * referenceKeyLen < blockSize
    THEN appendPadWithZeroes(concatPairs(nodeReferenceKeyPairs), blockSize)
    ELSE concatPairs(nodeReferenceKeyPairs)

RECURSIVE constructInternalNodes(_, _)
constructInternalNodes(referenceKeyPairs, blockSize) ==
    IF Len(referenceKeyPairs) = 0 THEN <<>>
    ELSE IF Len(referenceKeyPairs) <= arity(blockSize)
    THEN <<internalNode(referenceKeyPairs, blockSize)>>
    ELSE <<internalNode(SubSeq(referenceKeyPairs, 1, arity(blockSize)), blockSize)>>
         \o constructInternalNodes(
                SubSeq(referenceKeyPairs, arity(blockSize) + 1, Len(referenceKeyPairs)),
                blockSize)

\* NewEncoder.  ver names the version of the Encoder: "cur" encrypts leaves
\* and internal nodes in place (part_006), "old" into a fresh block
\* (part_005).  splitter is <<>> (nil) or <<s>>.
NewEncoder(content, secret, blockSize, ver) ==
    [h |-> <<>>, ver |-> ver, state |-> 0, err |-> "nil", content |-> content,
     secret |-> secret, blockSize |-> blockSize, blocks |-> {},
     currBlock |-> <<>>, currRef |-> ZeroCell, level |-> 0,
     referenceKeyPairs |-> <<>>, rootRefKey |-> ZeroPair, splitter |-> <<>>,
     internalNodes |-> <<>>, internalNodePos |-> 0]

\* maybeEmitBlock without the seen set.
maybeEmitBlockAlways(e, block, ref) ==
    [ok |-> TRUE, e |-> [e EXCEPT !.currBlock = block, !.currRef = ref]]

maybeEmitBlock(e, block, ref) ==
    IF ref \in e.blocks THEN [ok |-> FALSE, e |-> e]
    ELSE [ok |-> TRUE,
          e |-> [e EXCEPT !.blocks = @ \cup {ref}, !.currBlock = block, !.currRef = ref]]

\* The loop of nextContent taking an error of the source for its end.
RECURSIVE nextContentLoopIgnoreErr(_)
nextContentLoopIgnoreErr(e) ==
    LET sn == splitterNext(e.splitter[1])
    IN IF sn.ok
       THEN LET enc == encryptLeafNode(sn.s.buf, e.secret, e.h)
                s2 == [sn.s EXCEPT !.buf = IF e.ver = "cur" THEN enc.block ELSE @]
                e1 == [e EXCEPT !.h = enc.h, !.splitter = <<s2>>,
                                !.referenceKeyPairs = Append(@, enc.refKey)]
                em == maybeEmitBlockAlways(e1, enc.block, enc.refKey.Reference)
            IN [res |-> "true", e |-> em.e]
       ELSE [res |-> "continue", e |-> [e EXCEPT !.state = 1, !.splitter = <<sn.s>>]]

\* The loop of nextContent; the splitter exists.
RECURSIVE nextContentLoop(_)

\* After maybeEmitBlock returned em: skip the block or return true.
nextContentEmit(em) ==
    IF ~em.ok THEN nextContentLoop(em.e) ELSE [res |-> "true", e |-> em.e]

\* The body of the loop: s is the splitter after Next, enc the encrypted
\* Block() of it (encrypted in the buffer of the splitter in "cur").
nextContentBlock(e, s, enc) ==
    nextContentEmit(maybeEmitBlock(
        [e EXCEPT !.h = enc.h,
                  !.splitter = <<[s EXCEPT !.buf = IF e.ver = "cur" THEN enc.block ELSE @]>>,
                  !.referenceKeyPairs = Append(@, enc.refKey)],
        enc.block, enc.refKey.Reference))

\* sn is what splitter.Next returned.
nextContentSplit(e, sn) ==
    IF sn.ok THEN nextContentBlock(e, sn.s, encryptLeafNode(sn.s.buf, e.secret, e.h))
    ELSE IF sn.s.err # "nil"
    THEN [res |-> "false", e |-> [e EXCEPT !.splitter = <<sn.s>>, !.err = sn.s.err]]
    ELSE [res |-> "continue",
          e |-> [e EXCEPT !.state = 1,
                          !.splitter = IF e.ver = "cur" THEN <<sn.s>> ELSE <<>>]]

nextContentLoop(e) == nextContentSplit(e, splitterNext(e.splitter[1]))

nextContent(e) ==
    nextContentLoop(IF e.splitter = <<>>
                    THEN [e EXCEPT !.splitter = <<newSplitter(e.content, e.blockSize)>>]
                    ELSE e)

\* The loop of nextInternalNodes from node i (0-based).
RECURSIVE internalNodesLoop(_, _)

\* After maybeEmitBlock returned em for node i: skip the block, or set the
\* position and return true.
internalNodesEmit(em, i) ==
    IF ~em.ok THEN internalNodesLoop(em.e, i + 1)
    ELSE [res |-> "true", e |-> [em.e EXCEPT !.internalNodePos = i + 1]]

\* The body of the loop: enc is node i encrypted (in place in "cur").
internalNodesBlock(e, i, enc) ==
    internalNodesEmit(maybeEmitBlock(
        [e EXCEPT !.h = enc.h,
                  !.internalNodes[i + 1] = IF e.ver = "cur" THEN enc.block ELSE @,
                  !.referenceKeyPairs = Append(@, enc.refKey)],
        enc.block, enc.refKey.Reference), i)

internalNodesLoop(e, i) ==
    IF i >= Len(e.internalNodes) THEN [res |-> "continue", e |-> e]
    ELSE internalNodesBlock(e, i, encryptInternalNode(e.internalNodes[i + 1], e.level, e.h))

\* nextInternalNodes entering the done state with any number of pairs and
\* without setting the root pair.
nextInternalNodesNoRoot(e) ==
    IF Len(e.referenceKeyPairs) < 1 THEN [res |-> "panic", e |-> e]
    ELSE [res |-> "continue", e |-> [e EXCEPT !.state = 2]]

nextInternalNodes(e) ==
    IF e.internalNodePos = Len(e.internalNodes)
    THEN IF Len(e.referenceKeyPairs) < 1 THEN [res |-> "panic", e |-> e]
         ELSE IF Len(e.referenceKeyPairs) = 1
         THEN [res |-> "continue",
               e |-> [e EXCEPT !.rootRefKey = e.referenceKeyPairs[1], !.state = 2]]
         ELSE internalNodesLoop(
                 [e EXCEPT !.level = @ + 1,
                           !.internalNodes = constructInternalNodes(e.referenceKeyPairs, e.blockSize),
                           !.referenceKeyPairs = <<>>,
                           !.internalNodePos = 0], 0)
    ELSE IF e.internalNodePos >= Len(e.internalNodes) THEN [res |-> "panic", e |-> e]
    ELSE internalNodesLoop(e, e.internalNodePos)

\* The loop of Encoder.Next; a call that has not returned after MaxIter
\* iterations is one that never returns ("hang").
RECURSIVE NextLoop(_, _)

\* st is what the function of the state returned.
NextSwitch(st, fuel) ==
    IF st.res = "continue" THEN NextLoop(st.e, fuel - 1) ELSE st

NextLoop(e, fuel) ==
    IF fuel = 0 THEN [res |-> "hang", e |-> e]
    ELSE NextSwitch(IF e.state = 0 THEN nextContent(e)
                    ELSE IF e.state = 1 THEN nextInternalNodes(e)
                    ELSE IF e.state = 2 THEN [res |-> "false", e |-> e]
                    ELSE [res |-> "panic", e |-> e],
                    fuel)

EncoderNext(e) ==
    IF e.err # "nil" THEN [res |-> "false", e |-> e] ELSE NextLoop(e, MaxIter)

\* Encoder.reset leaving the set of blocks seen as it is.
EncoderResetKeepBlocks(e, r) ==
    [e EXCEPT !.state = 0, !.err = "nil", !.content = r, !.level = 0,
              !.currBlock = <<>>, !.currRef = ZeroCell,
              !.referenceKeyPairs = <<>>, !.rootRefKey = ZeroPair,
              !.internalNodes = <<>>, !.internalNodePos = 0,
              !.splitter = IF e.splitter = <<>> THEN <<>>
                           ELSE <<splitterReset(e.splitter[1], r)>>]

\* Encoder.reset: the secret, the block size and the buffer of the splitter
\* stay; the hasher is reset before every use, and has no state here.
EncoderReset(e, r) ==
    [e EXCEPT !.state = 0, !.err = "nil", !.content = r, !.level = 0,
              !.blocks = {},
              !.currBlock = <<>>, !.currRef = ZeroCell,
              !.referenceKeyPairs = <<>>, !.rootRefKey = ZeroPair,
              !.internalNodes = <<>>, !.internalNodePos = 0,
              !.splitter = IF e.splitter = <<>> THEN <<>>
                           ELSE <<splitterReset(e.splitter[1], r)>>]

ZeroCapability == [BlockSize |-> 0, Level |-> 0, Root |-> ZeroPair]

Capability(e) ==
    IF e.err # "nil" THEN ZeroCapability
    ELSE [BlockSize |-> e.blockSize, Level |-> e.level, Root |-> e.rootRefKey]

\* ---------------------------------------------------------- batch Encode

\* The loop over the nodes of one level: the blocks and the pairs so far.
RECURSIVE EncodeNodes(_, _, _, _, _)
EncodeNodes(nodes, level, blocks, referenceKeyPairs, h) ==
    IF nodes = <<>> THEN [blocks |-> blocks, pairs |-> referenceKeyPairs, h |-> h]
    ELSE LET enc == encryptInternalNode(Head(nodes), level, h)
         IN EncodeNodes(Tail(nodes), level, Append(blocks, enc.block),
                        Append(referenceKeyPairs, enc.refKey), enc.h)

\* The loop over the levels above the leaves.
RECURSIVE EncodeLevels(_, _, _, _, _)
EncodeLevels(blocks, referenceKeyPairs, level, blockSize, h) ==
    IF Len(referenceKeyPairs) > 1
    THEN LET en == EncodeNodes(constructInternalNodes(referenceKeyPairs, blockSize),
                               level + 1, blocks, <<>>, h)
         IN EncodeLevels(en.blocks, en.pairs, level + 1, blockSize, en.h)
    ELSE [blocks |-> blocks, err |-> "nil", h |-> h,
          rc |-> [BlockSize |-> blockSize, Level |-> level, Root |-> referenceKeyPairs[1]]]

\* The loop over the leaves; splitContent reads as the splitter does.
RECURSIVE EncodeLeaves(_, _, _, _, _)
EncodeLeaves(s, secret, blocks, referenceKeyPairs, h) ==
    LET sn == splitterNext(s)
    IN IF sn.ok
       THEN LET enc == encryptLeafNode(sn.s.buf, secret, h)
            IN EncodeLeaves(sn.s, secret, Append(blocks, enc.block),
                            Append(referenceKeyPairs, enc.refKey), enc.h)
       ELSE IF sn.s.err # "nil"
       THEN [blocks |-> blocks, err |-> sn.s.err, h |-> h, rc |-> ZeroCapability]
       ELSE EncodeLevels(blocks, referenceKeyPairs, 0, s.blockSize, h)

Encode(content, secret, blockSize, h) ==
    EncodeLeaves(newSplitter(content, blockSize), secret, <<>>, <<>>, h)

\* --------------------------------------------------------------- decoder

\* removePadding skipping every byte that is not 0x80.
RECURSIVE removePaddingSkipping(_, _, _)
removePaddingSkipping(buf, blockSize, i) ==
    IF i >= blockSize THEN [out |-> <<>>, err |-> "ErrInvalidPadding"]
    ELSE IF buf[Len(buf) - i] = PadCell
    THEN [out |-> SubSeq(buf, 1, Len(buf) - i - 1), err |-> "nil"]
    ELSE removePaddingSkipping(buf, blockSize, i + 1)

RECURSIVE removePaddingFrom(_, _, _)
removePaddingFrom(buf, blockSize, i) ==
    IF i >= blockSize THEN [out |-> <<>>, err |-> "ErrInvalidPadding"]
    ELSE LET b == buf[Len(buf) - i]
         IN IF b = PadCell
            THEN [out |-> SubSeq(buf, 1, Len(buf) - i - 1), err |-> "nil"]
            ELSE IF b = ZeroCell THEN removePaddingFrom(buf, blockSize, i + 1)
            ELSE [out |-> <<>>, err |-> "ErrInvalidPadding"]

removePadding(buf, blockSize) ==
    IF Len(buf) < blockSize THEN [out |-> <<>>, err |-> "ErrInvalidPadding"]
    ELSE removePaddingFrom(buf, blockSize, 0)

\* Whether data[from..] (1-based) is all zero.
RECURSIVE restIsZero(_, _)
restIsZero(data, from) ==
    from > Len(data) \/ (data[from] = ZeroCell /\ restIsZero(data, from + 1))

\* decodeInternalNode ending the list at a slot whose Key is zero as well.
RECURSIVE decodeInternalNodeFromZeroKey(_, _, _)
decodeInternalNodeFromZeroKey(data, i, refs) ==
    IF i >= Len(data) THEN [refs |-> refs, err |-> "nil"]
    ELSE IF data[i + 1] = ZeroCell \/ data[i + ReferenceSize + 1] = ZeroCell
    THEN [refs |-> refs, err |-> "nil"]
    ELSE decodeInternalNodeFromZeroKey(data, i + referenceKeyLen,
             Append(refs, [Reference |-> data[i + 1], Key |-> data[i + ReferenceSize + 1]]))

\* decodeInternalNode returning, with ErrInvalidPadding, the pairs read.
RECURSIVE decodeInternalNodeFromKeepRefs(_, _, _)
decodeInternalNodeFromKeepRefs(data, i, refs) ==
    IF i >= Len(data) THEN [refs |-> refs, err |-> "nil"]
    ELSE IF data[i + 1] = ZeroCell
    THEN [refs |-> refs,
          err |-> IF restIsZero(data, i + ReferenceSize + 1) THEN "nil"
                  ELSE "ErrInvalidPadding"]
    ELSE decodeInternalNodeFromKeepRefs(data, i + referenceKeyLen,
             Append(refs, [Reference |-> data[i + 1], Key |-> data[i + ReferenceSize + 1]]))

\* decodeInternalNode from offset i (0-based) with the pairs read so far.
RECURSIVE decodeInternalNodeFrom(_, _, _)
decodeInternalNodeFrom(data, i, refs) ==
    IF i >= Len(data) THEN [refs |-> refs, err |-> "nil"]
    ELSE IF data[i + 1] = ZeroCell
    THEN IF restIsZero(data, i + ReferenceSize + 1)
         THEN [refs |-> refs, err |-> "nil"]
         ELSE [refs |-> <<>>, err |-> "ErrInvalidPadding"]
    ELSE decodeInternalNodeFrom(data, i + referenceKeyLen,
             Append(refs, [Reference |-> data[i + 1], Key |-> data[i + ReferenceSize + 1]]))

decodeInternalNode(data, blockSize) == decodeInternalNodeFrom(data, 0, <<>>)

\* A fetch function over a block store, a set of [ref, block]: the stored
\* block (a copy of it), or an error when the store holds none.
Fetch(store, ref) ==
    IF \E b \in store : b.ref = ref
    THEN [block |-> (CHOOSE b \in store : b.ref = ref).block, err |-> "nil"]
    ELSE [block |-> <<>>, err |-> "not found"]

\* dereferenceNode not comparing the hash of the block with the reference.
dereferenceBlockUnchecked(block, ref, level, returnedRef) ==
    [block |-> XORKeyStream(ref.Key, Nonce(level), block, returnedRef.h).data,
     err |-> "nil",
     h |-> XORKeyStream(ref.Key, Nonce(level), block, returnedRef.h).h]

\* dereferenceNode once the block has the right size: returnedRef is its hash.
dereferenceBlock(block, ref, level, returnedRef) ==
    IF returnedRef.v # ref.Reference
    THEN [block |-> <<>>, err |-> "ErrInvalidBlock", h |-> returnedRef.h]
    ELSE [block |-> XORKeyStream(ref.Key, Nonce(level), block, returnedRef.h).data,
          err |-> "nil",
          h |-> XORKeyStream(ref.Key, Nonce(level), block, returnedRef.h).h]

\* dereferenceNode not comparing the length of the block with the block size.
dereferenceFetchedAnySize(f, ref, level, blockSize, h) ==
    IF f.err # "nil" THEN [block |-> <<>>, err |-> f.err, h |-> h]
    ELSE dereferenceBlock(f.block, ref, level, Sum256(f.block, h))

\* dereferenceNode once fetch has returned f.
dereferenceFetched(f, ref, level, blockSize, h) ==
    IF f.err # "nil" THEN [block |-> <<>>, err |-> f.err, h |-> h]
    ELSE IF Len(f.block) # blockSize
    THEN [block |-> <<>>, err |-> "ErrInvalidBlockSize", h |-> h]
    ELSE dereferenceBlock(f.block, ref, level, Sum256(f.block, h))

dereferenceNode(fetch, ref, level, blockSize, h) ==
    dereferenceFetched(Fetch(fetch, ref.Reference), ref, level, blockSize, h)

\* fetched and peak are not fields of the Decoder: fetched is the list of
\* the nodes (pair and level) the fetch function was called for, peak the
\* greatest length the stack has had, within a call of Next as well.
NewDecoder(fetch, rc, h) ==
    [h |-> h, fetch |-> fetch, rc |-> rc, err |-> "nil", block |-> <<>>,
     stack |-> <<>>, didInit |-> FALSE, fetched |-> <<>>, peak |-> 0]

\* d after frames were appended to its stack.
Pushed(d) == [d EXCEPT !.peak = IF Len(d.stack) > @ THEN Len(d.stack) ELSE @]

\* The children pushed in order: refs[1] up to refs[i].
pushInOrder(stack, refs, i, atLevel) ==
    stack \o [j \in 1..i |-> [ref |-> refs[j], level |-> atLevel]]

\* Every child pushed twice.
RECURSIVE pushReversedTwice(_, _, _, _)
pushReversedTwice(stack, refs, i, atLevel) ==
    IF i < 1 THEN stack
    ELSE pushReversedTwice(stack \o <<[ref |-> refs[i], level |-> atLevel],
                                     [ref |-> refs[i], level |-> atLevel]>>,
                           refs, i - 1, atLevel)

\* The children pushed in reverse order: refs[i] down to refs[1].
RECURSIVE pushReversed(_, _, _, _)
pushReversed(stack, refs, i, atLevel) ==
    IF i < 1 THEN stack
    ELSE pushReversed(Append(stack, [ref |-> refs[i], level |-> atLevel]), refs, i - 1, atLevel)

\* Decoder.decodeInternalNode once the node is decoded to dn.
DecoderPush(d, dn, atLevel) ==
    IF dn.err # "nil" THEN [err |-> dn.err, d |-> d]
    ELSE [err |-> "nil",
          d |-> Pushed([d EXCEPT !.stack = pushReversed(@, dn.refs, Len(dn.refs), atLevel)])]

\* Decoder.decodeInternalNode pushing the children one level too low.
DecoderDecodeInternalNodeTooLow(d, node, atLevel) ==
    IF atLevel < 0 THEN [err |-> "panic", d |-> d]
    ELSE DecoderPush(d, decodeInternalNode(node, d.rc.BlockSize), atLevel - 1)

\* Decoder.decodeInternalNode: the error, and the decoder with the children
\* of the node on its stack.
DecoderDecodeInternalNode(d, node, atLevel) ==
    IF atLevel < 0 THEN [err |-> "panic", d |-> d]
    ELSE DecoderPush(d, decodeInternalNode(node, d.rc.BlockSize), atLevel)

\* The loop of Decoder.Next.
RECURSIVE DecoderLoop(_)

\* An internal node was decoded: di is what decodeInternalNode returned.
DecoderInternal(d, di) ==
    IF di.err = "panic" THEN [res |-> "panic", d |-> d]
    ELSE IF di.err # "nil" THEN [res |-> "false", d |-> [d EXCEPT !.err = di.err]]
    ELSE IF Len(di.d.stack) = 0 THEN [res |-> "panic", d |-> di.d]
    ELSE DecoderLoop(di.d)

\* The final leaf published even when nothing is left of it.
DecoderFinalPublishEmpty(d, rp) ==
    IF rp.err # "nil" THEN [res |-> "false", d |-> [d EXCEPT !.block = rp.out, !.err = rp.err]]
    ELSE [res |-> "true", d |-> [d EXCEPT !.block = rp.out]]

\* The final leaf: rp is what removePadding returned.
DecoderFinal(d, rp) ==
    IF rp.err # "nil" THEN [res |-> "false", d |-> [d EXCEPT !.block = rp.out, !.err = rp.err]]
    ELSE IF Len(rp.out) = 0 THEN [res |-> "false", d |-> [d EXCEPT !.block = rp.out]]
    ELSE [res |-> "true", d |-> [d EXCEPT !.block = rp.out]]

\* The body of the loop removing the padding of every leaf.
DecoderNodeUnpadAll(d, curr, dn) ==
    IF curr.level < 0 THEN [res |-> "panic", d |-> d]
    ELSE IF dn.err # "nil" THEN [res |-> "false", d |-> [d EXCEPT !.err = dn.err]]
    ELSE IF curr.level = 0
    THEN DecoderFinal(d, removePadding(dn.block, d.rc.BlockSize))
    ELSE DecoderInternal(d, DecoderDecodeInternalNode(d, dn.block, curr.level - 1))

\* The body of the loop going on with the next frame when a node fails.
DecoderNodeSkipFailed(d, curr, dn) ==
    IF curr.level < 0 THEN [res |-> "panic", d |-> d]
    ELSE IF dn.err # "nil" THEN DecoderLoop(d)
    ELSE IF curr.level = 0
    THEN IF Len(d.stack) # 0 THEN [res |-> "true", d |-> [d EXCEPT !.block = dn.block]]
         ELSE DecoderFinal(d, removePadding(dn.block, d.rc.BlockSize))
    ELSE DecoderInternal(d, DecoderDecodeInternalNode(d, dn.block, curr.level - 1))

\* The body of the loop: curr was popped off the stack of d and dn is what
\* dereferenceNode returned for it.
DecoderNode(d, curr, dn) ==
    IF curr.level < 0 THEN [res |-> "panic", d |-> d]
    ELSE IF dn.err # "nil" THEN [res |-> "false", d |-> [d EXCEPT !.err = dn.err]]
    ELSE IF curr.level = 0
    THEN IF Len(d.stack) # 0 THEN [res |-> "true", d |-> [d EXCEPT !.block = dn.block]]
         ELSE DecoderFinal(d, removePadding(dn.block, d.rc.BlockSize))
    ELSE DecoderInternal(d, DecoderDecodeInternalNode(d, dn.block, curr.level - 1))

DecoderPop(d, curr, dn) ==
    DecoderNode([d EXCEPT !.stack = SubSeq(@, 1, Len(@) - 1), !.h = dn.h,
                          !.fetched = Append(@, curr)],
                curr, dn)

DecoderLoop(d) ==
    IF Len(d.stack) = 0 THEN [res |-> "false", d |-> d]
    ELSE DecoderPop(d, d.stack[Len(d.stack)],
                    dereferenceNode(d.fetch, d.stack[Len(d.stack)].ref,
                                    d.stack[Len(d.stack)].level, d.rc.BlockSize, d.h))

\* The root was decoded: di is what decodeInternalNode returned.
DecoderRootInternal(d, di) ==
    IF di.err = "panic" THEN [res |-> "panic", d |-> d]
    ELSE IF di.err # "nil" THEN [res |-> "false", d |-> [d EXCEPT !.err = di.err]]
    ELSE DecoderLoop([di.d EXCEPT !.didInit = TRUE])

\* The root dereferenced, its hash not compared with the key.
DecoderRootKeyUnchecked(d, node, gotHash) ==
    DecoderRootInternal(d, DecoderDecodeInternalNode(d, node, d.rc.Level - 1))

\* The root, once verified, put on the stack to be fetched again.
DecoderRootKeyRefetch(d, node, gotHash) ==
    IF gotHash # d.rc.Root.Key THEN [res |-> "false", d |-> [d EXCEPT !.err = "ErrInvalidKey"]]
    ELSE DecoderLoop(Pushed([d EXCEPT !.stack = <<[ref |-> d.rc.Root, level |-> d.rc.Level]>>,
                                      !.didInit = TRUE]))

\* The root was dereferenced to node, whose hash is gotHash.
DecoderRootKey(d, node, gotHash) ==
    IF gotHash # d.rc.Root.Key THEN [res |-> "false", d |-> [d EXCEPT !.err = "ErrInvalidKey"]]
    ELSE DecoderRootInternal(d, DecoderDecodeInternalNode(d, node, d.rc.Level - 1))

\* dn is what dereferenceNode returned for the root.
DecoderRoot(d, dn) ==
    IF dn.err # "nil"
    THEN [res |-> "false",
          d |-> [d EXCEPT !.h = dn.h, !.err = dn.err,
                          !.fetched = Append(@, [ref |-> d.rc.Root, level |-> d.rc.Level])]]
    ELSE DecoderRootKey([d EXCEPT !.h = Sum256(dn.block, dn.h).h,
                                  !.fetched = Append(@, [ref |-> d.rc.Root, level |-> d.rc.Level])],
                        dn.block, Sum256(dn.block, dn.h).v)

\* Decoder.Next going on after an error.
DecoderNextAfterError(d) ==
    IF d.didInit THEN DecoderLoop(d)
    ELSE IF d.rc.Level > 0
    THEN DecoderRoot(d, dereferenceNode(d.fetch, d.rc.Root, d.rc.Level, d.rc.BlockSize, d.h))
    ELSE DecoderLoop(Pushed([d EXCEPT !.stack = Append(@, [ref |-> d.rc.Root, level |-> 0]),
                                      !.didInit = TRUE]))

\* Decoder.Next starting again from the root once its stack is empty.
DecoderNextRestart(d) ==
    IF d.err # "nil" THEN [res |-> "false", d |-> d]
    ELSE IF d.didInit /\ d.stack # <<>> THEN DecoderLoop(d)
    ELSE IF d.rc.Level > 0
    THEN DecoderRoot(d, dereferenceNode(d.fetch, d.rc.Root, d.rc.Level, d.rc.BlockSize, d.h))
    ELSE DecoderLoop(Pushed([d EXCEPT !.stack = Append(@, [ref |-> d.rc.Root, level |-> 0]),
                                      !.didInit = TRUE]))

DecoderNext(d) ==
    IF d.err # "nil" THEN [res |-> "false", d |-> d]
    ELSE IF d.didInit THEN DecoderLoop(d)
    ELSE IF d.rc.Level > 0
    THEN DecoderRoot(d, dereferenceNode(d.fetch, d.rc.Root, d.rc.Level, d.rc.BlockSize, d.h))
    ELSE DecoderLoop(Pushed([d EXCEPT !.stack = Append(@, [ref |-> d.rc.Root, level |-> 0]),
                                      !.didInit = TRUE]))

\* Decoder.Block.
DecoderBlock(d) == IF d.err # "nil" THEN <<>> ELSE d.block

\* ------------------------------------------------------- DecodeRecursive

\* The function decodeRecursive of DecodeRecursive: the bytes below the
\* node refKey of a level, the error, the table.
RECURSIVE decodeRecursive(_, _, _, _, _)

RECURSIVE decodeChildren(_, _, _, _, _, _, _)

\* child is what decodeRecursive returned for refs[i].
decodeChild(fetch, blockSize, level, refs, i, output, child) ==
    IF child.err # "nil" THEN [out |-> <<>>, err |-> child.err, h |-> child.h]
    ELSE decodeChildren(fetch, blockSize, level, refs, i + 1, output \o child.out, child.h)

\* The loop over the children of a node of a level, from refs[i] on.
decodeChildren(fetch, blockSize, level, refs, i, output, h) ==
    IF i > Len(refs) THEN [out |-> output, err |-> "nil", h |-> h]
    ELSE decodeChild(fetch, blockSize, level, refs, i, output,
                     decodeRecursive(fetch, blockSize, level - 1, refs[i], h))

\* dec is what decodeInternalNode returned for the node.
decodeRefs(fetch, blockSize, level, dec, h) ==
    IF dec.err # "nil" THEN [out |-> <<>>, err |-> dec.err, h |-> h]
    ELSE decodeChildren(fetch, blockSize, level, dec.refs, 1, <<>>, h)

\* dn is what dereferenceNode returned for the node.
decodeDereferenced(fetch, blockSize, level, dn) ==
    IF dn.err # "nil" THEN [out |-> <<>>, err |-> dn.err, h |-> dn.h]
    ELSE IF level = 0 THEN [out |-> dn.block, err |-> "nil", h |-> dn.h]
    ELSE decodeRefs(fetch, blockSize, level, decodeInternalNode(dn.block, blockSize), dn.h)

decodeRecursive(fetch, blockSize, level, refKey, h) ==
    decodeDereferenced(fetch, blockSize, level,
                       dereferenceNode(fetch, refKey, level, blockSize, h))

\* The end of DecodeRecursive: padded is what decodeRecursive returned.
DecodeUnpad(rc, padded) ==
    IF padded.err # "nil" THEN [out |-> <<>>, err |-> padded.err]
    ELSE removePadding(padded.out, rc.BlockSize)

\* Verify-Key in DecodeRecursive: dn is what dereferenceNode returned for
\* the root, gotHash the hash of the node.
DecodeVerified(fetch, rc, dn, gotHash) ==
    IF gotHash.v # rc.Root.Key THEN [out |-> <<>>, err |-> "ErrInvalidKey"]
    ELSE DecodeUnpad(rc, decodeRecursive(fetch, rc.BlockSize, rc.Level, rc.Root, gotHash.h))

DecodeVerify(fetch, rc, dn) ==
    IF dn.err # "nil" THEN [out |-> <<>>, err |-> dn.err]
    ELSE DecodeVerified(fetch, rc, dn, Sum256(dn.block, dn.h))

\* DecodeRecursive: the content, the error.
DecodeRecursive(fetch, rc, h) ==
    IF rc.Level > 0
    THEN DecodeVerify(fetch, rc, dereferenceNode(fetch, rc.Root, rc.Level, rc.BlockSize, h))
    ELSE DecodeUnpad(rc, decodeRecursive(fetch, rc.BlockSize, rc.Level, rc.Root, h))

\* ------------------------------------------------------------ the system

VARIABLES
    e,        \* the Encoder
    ret,      \* what the last Encoder.Next returned ("none" before the first)
    emitted,  \* [ref, block] of every Encoder.Next that returned true, in order
    d,        \* the Decoder: <<>> before NewDecoder, then <<decoder>>
    dret,     \* what the last Decoder.Next returned
    decoded,  \* the Block() of every Decoder.Next that returned true, concatenated
    yielded,  \* the Block() of every Decoder.Next that returned true, in order
    first,    \* <<>>, or <<what an earlier Encoder run over the same input gave>>
    sp,       \* <<>>, or <<a splitter used on its own>>
    sok,      \* what the last splitter Next returned
    split,    \* the Block() of every splitter Next that returned true, in order
    pad,      \* <<>>, or <<a buffer, a block size and what removePadding made of them>>
    fn        \* <<>>, or <<a function of the package, its argument and its result>>

vars == <<e, ret, emitted, d, dret, decoded, yielded, first, sp, sok, split, pad, fn>>

encVars == <<e, ret, emitted>>
decVars == <<d, dret, decoded, yielded>>
splitVars == <<sp, sok, split>>

RECURSIVE Cells(_, _)
\* The byte cells of f[i..n].
Cells(f, i) == IF i > Len(f) THEN <<>> ELSE <<Byte(f[i])>> \o Cells(f, i + 1)

\* Every sequence of at most n cells.
Tails(n) == {Cells(f, 1) : f \in UNION {[1..k -> Bytes] : k \in 0..n}}

\* The whole blocks of a content: all zero, or the padding marker followed by
\* zeroes, which is also what the padding of an empty tail looks like.
WholeBlocks(blockSize) == {Zeroes(blockSize), <<PadCell>> \o Zeroes(blockSize - 1)}

RECURSIVE Flatten(_, _)
Flatten(f, i) == IF i > Len(f) THEN <<>> ELSE f[i] \o Flatten(f, i + 1)

Contents(blockSize) ==
    {Flatten(f, 1) \o tail :
        f \in UNION {[1..k -> WholeBlocks(blockSize)] : k \in 0..MaxBlocks},
        tail \in Tails(MaxTail)}

Versions == {"cur", "old"}

\* A source fails at any cell of a content of at most MaxErrLen cells, or
\* at its end in place of end-of-input.
FailPoints(data) == {-1} \cup (IF Len(data) <= MaxErrLen THEN 0..Len(data) ELSE {})

Init ==
    /\ \E secret \in Secrets, blockSize \in BlockSizes, ver \in Versions :
          \E data \in Contents(blockSize) : \E failAt \in FailPoints(data) :
             e = NewEncoder(Reader(data, failAt), secret, blockSize, ver)
    /\ ret = "none"
    /\ emitted = <<>>
    /\ d = <<>>
    /\ dret = "none"
    /\ decoded = <<>>
    /\ yielded = <<>>
    /\ first = <<>>
    /\ sp = <<>>
    /\ sok = "none"
    /\ split = <<>>
    /\ pad = <<>>
    /\ fn = <<>>

Block(enc) == IF enc.err # "nil" THEN <<>> ELSE enc.currBlock
Reference(enc) == IF enc.err # "nil" THEN ZeroCell ELSE enc.currRef

\* The caller of Encoder.Next, nx being what the call returned: it reads
\* Reference() and Block() when the call returned true.
EncReturned(nx) ==
    /\ e' = nx.e
    /\ ret' = nx.res
    /\ emitted' = IF nx.res = "true"
                  THEN Append(emitted, [ref |-> Reference(nx.e), block |-> Block(nx.e)])
                  ELSE emitted

\* A call of Encoder.Next.
EncNext ==
    /\ d = <<>>
    /\ ret \notin {"hang", "panic"}
    /\ EncReturned(EncoderNext(e))
    /\ UNCHANGED <<decVars, first, splitVars, pad, fn>>

RECURSIVE SeqToSet(_)
SeqToSet(s) == IF s = <<>> THEN {} ELSE {Head(s)} \cup SeqToSet(Tail(s))

\* NewDecoder over the blocks the Encoder emitted, once it has finished.
DecNew ==
    /\ d = <<>>
    /\ ret = "false"
    /\ e.err = "nil"
    /\ d' = <<NewDecoder(SeqToSet(emitted), Capability(e), e.h)>>
    /\ UNCHANGED <<encVars, dret, decoded, yielded, first, splitVars, pad, fn>>

\* The caller of Decoder.Next, nx being what the call returned: it reads
\* Block() when the call returned true.
DecReturned(nx) ==
    /\ d' = <<nx.d>>
    /\ dret' = nx.res
    /\ decoded' = IF nx.res = "true" THEN decoded \o nx.d.block ELSE decoded
    /\ yielded' = IF nx.res = "true" THEN Append(yielded, nx.d.block) ELSE yielded

\* A call of Decoder.Next.
DecNext ==
    /\ d # <<>>
    /\ dret # "panic"
    /\ DecReturned(DecoderNext(d[1]))
    /\ UNCHANGED <<encVars, first, splitVars, pad, fn>>

Next == EncNext \/ DecNew \/ DecNext

Spec == Init /\ [][Next]_vars

\* ------------------------------------------------ two runs of the Encoder

MaxChunk == 3

\* How many cells a source delivers in one Read (0: all that is asked for).
Chunks == 0..MaxChunk

\* The variables the Encoder runs leave alone.
EncIdle ==
    /\ d = <<>>
    /\ dret = "none"
    /\ decoded = <<>>
    /\ yielded = <<>>
    /\ sp = <<>>
    /\ sok = "none"
    /\ split = <<>>
    /\ pad = <<>>
    /\ fn = <<>>

\* NewEncoder over a source that delivers its data in chunks.
InitConv ==
    /\ \E secret \in Secrets, blockSize \in BlockSizes, chunk \in Chunks :
          \E data \in Contents(blockSize) :
             e = NewEncoder(ChunkedReader(data, -1, chunk), secret, blockSize, "cur")
    /\ ret = "none"
    /\ emitted = <<>>
    /\ first = <<>>
    /\ EncIdle

\* A second, independent Encoder over the same content, secret and block
\* size, its source delivering whatever is asked for: NewEncoder again,
\* the first run's Capability() and pairs kept for comparison.  The two
\* runs share the table of hash values, so that equal values mean equal
\* hash inputs.
EncAgain ==
    /\ first = <<>>
    /\ ret = "false"
    /\ first' = <<[rc |-> Capability(e), emitted |-> emitted, err |-> e.err,
                   chunk |-> e.content.chunk]>>
    /\ e' = [NewEncoder(Reader(e.content.data, e.content.failAt),
                        e.secret, e.blockSize, e.ver) EXCEPT !.h = e.h]
    /\ ret' = "none"
    /\ emitted' = <<>>
    /\ UNCHANGED <<decVars, splitVars, pad, fn>>

NextConv == EncNext \/ EncAgain

SpecConv == InitConv /\ [][NextConv]_vars

\* ------------------------------------------------------- Encoder.reset

\* The loop "for enc.Next() { enc.Block() }" of a caller: what the last
\* Next returned, the Encoder after it, the blocks read.
RECURSIVE EncoderRun(_, _)

\* nx is what Next returned.
EncoderRan(nx, blocks) ==
    IF nx.res = "true"
    THEN EncoderRun(nx.e, Append(blocks, [ref |-> Reference(nx.e), block |-> Block(nx.e)]))
    ELSE [res |-> nx.res, e |-> nx.e, emitted |-> blocks]

EncoderRun(enc, blocks) == EncoderRan(EncoderNext(enc), blocks)

\* What a caller keeps at the reset to compare with: a run of an Encoder
\* newly constructed over r, and how far the Encoder was before.
Fresh(enc, r, res, n) ==
    [fresh |-> EncoderRun([NewEncoder(r, enc.secret, enc.blockSize, enc.ver)
                              EXCEPT !.h = enc.h], <<>>),
     ret |-> res, err |-> enc.err, emitted |-> n]

MaxResetBlocks == 2
MaxResetTail == 1

\* The contents an Encoder that is reset is given, before and after: whole
\* blocks that are all the same, as those of TestEncoder_Reset are, and a
\* tail.
ResetContents(blockSize) ==
    {Zeroes(k * blockSize) \o tail : k \in 0..MaxResetBlocks, tail \in Tails(MaxResetTail)}

\* NewEncoder over a source that may fail.
InitReset ==
    /\ \E secret \in Secrets, blockSize \in BlockSizes, ver \in Versions :
          \E data \in ResetContents(blockSize) : \E failAt \in FailPoints(data) :
             e = NewEncoder(Reader(data, failAt), secret, blockSize, ver)
    /\ ret = "none"
    /\ emitted = <<>>
    /\ first = <<>>
    /\ EncIdle

\* A call of Encoder.reset with a source that does not fail, after any
\* number of calls of Next that returned.  The hash and key-stream values
\* drawn so far stay as they are.
EncReset ==
    /\ d = <<>>
    /\ first = <<>>
    /\ ret \notin {"hang", "panic"}
    /\ \E data \in ResetContents(e.blockSize) :
          /\ e' = EncoderReset(e, Reader(data, -1))
          /\ first' = <<Fresh(e, Reader(data, -1), ret, Len(emitted))>>
    /\ ret' = "none"
    /\ emitted' = <<>>
    /\ UNCHANGED <<decVars, splitVars, pad, fn>>

NextReset == EncNext \/ EncReset

SpecReset == InitReset /\ [][NextReset]_vars

\* -------------------------------------------------- the splitter alone

MaxSplitLen == 6
MaxPadLen == 7

\* The bytes of a buffer: zero, the padding marker, and one other.
PadBytes == {0, 1, 128}
SplitBlockSizes == {2, 3}

\* Every sequence of at most n cells of PadBytes.
Buffers(n) == {Cells(f, 1) : f \in UNION {[1..k -> PadBytes] : k \in 0..n}}

\* An Encoder that is never run.
NoEncoder == NewEncoder(Reader(<<>>, -1), 0, 4, "cur")

\* The variables the splitter and removePadding leave alone.
SplitIdle ==
    /\ e = NoEncoder
    /\ ret = "none"
    /\ emitted = <<>>
    /\ d = <<>>
    /\ dret = "none"
    /\ decoded = <<>>
    /\ yielded = <<>>
    /\ first = <<>>

\* newSplitter over a content.
InitSplit ==
    /\ \E blockSize \in SplitBlockSizes, data \in Buffers(MaxSplitLen) :
          sp = <<newSplitter(Reader(data, -1), blockSize)>>
    /\ sok = "none"
    /\ split = <<>>
    /\ pad = <<>>
    /\ fn = <<>>
    /\ SplitIdle

\* The caller of splitter.Next, nx being what the call returned: it reads
\* Block() when the call returned true.
SplitReturned(nx) ==
    /\ sp' = <<nx.s>>
    /\ sok' = IF nx.ok THEN "true" ELSE "false"
    /\ split' = IF nx.ok THEN Append(split, nx.s.buf) ELSE split

\* A call of splitter.Next.
SplitNext ==
    /\ sp # <<>>
    /\ SplitReturned(splitterNext(sp[1]))
    /\ UNCHANGED <<encVars, decVars, first, pad, fn>>

\* The blocks the splitter yielded, joined into one buffer.
SplitJoin ==
    /\ sp # <<>>
    /\ sok = "false"
    /\ pad = <<>>
    /\ pad' = <<[buf |-> Flatten(split, 1), blockSize |-> sp[1].blockSize, res |-> <<>>]>>
    /\ UNCHANGED <<encVars, decVars, first, splitVars, fn>>

\* A call of removePadding on the buffer.
RemovePadding ==
    /\ pad # <<>>
    /\ pad[1].res = <<>>
    /\ pad' = <<[pad[1] EXCEPT !.res = <<removePadding(pad[1].buf, pad[1].blockSize)>>]>>
    /\ UNCHANGED <<encVars, decVars, first, splitVars, fn>>

NextSplit == SplitNext \/ SplitJoin \/ RemovePadding

SpecSplit == InitSplit /\ [][NextSplit]_vars

\* newSplitter over a source that fails at some cell of the content, or
\* at its end in place of end-of-input.
InitSplitErr ==
    /\ \E blockSize \in SplitBlockSizes, data \in Buffers(MaxSplitLen) :
          \E failAt \in 0..Len(data) :
             sp = <<newSplitter(Reader(data, failAt), blockSize)>>
    /\ sok = "none"
    /\ split = <<>>
    /\ pad = <<>>
    /\ fn = <<>>
    /\ SplitIdle

\* splitter.Reset with a source over the same content that does not fail.
SplitReset ==
    /\ sp # <<>>
    /\ sp[1].r.failAt # -1
    /\ sp' = <<splitterReset(sp[1], Reader(sp[1].r.data, -1))>>
    /\ sok' = "none"
    /\ split' = <<>>
    /\ UNCHANGED <<encVars, decVars, first, pad, fn>>

NextSplitErr == SplitNext \/ SplitReset

SpecSplitErr == InitSplitErr /\ [][NextSplitErr]_vars

MaxAgainLen == 2

\* splitter.Reset, once the splitter is done, with a source over another
\* content; the blocks of the source before are kept aside.
SplitAgain ==
    /\ sp # <<>>
    /\ sp[1].done
    /\ first = <<>>
    /\ \E data \in Buffers(MaxAgainLen) :
          sp' = <<splitterReset(sp[1], Reader(data, -1))>>
    /\ first' = <<[split |-> split, r |-> sp[1].r]>>
    /\ sok' = "none"
    /\ split' = <<>>
    /\ UNCHANGED <<encVars, decVars, pad, fn>>

NextSplitDone == SplitNext \/ SplitAgain

SpecSplitDone == InitSplit /\ [][NextSplitDone]_vars

\* A buffer and a block size given to removePadding.
InitPad ==
    /\ \E blockSize \in SplitBlockSizes, buf \in Buffers(MaxPadLen) :
          pad = <<[buf |-> buf, blockSize |-> blockSize, res |-> <<>>]>>
    /\ fn = <<>>
    /\ sp = <<>>
    /\ sok = "none"
    /\ split = <<>>
    /\ SplitIdle

SpecPad == InitPad /\ [][RemovePadding]_vars

\* ---------------------------------------------------- the Decoder alone

MaxDecBlocks == 2
MaxDecTail == 2

\* The contents of at most MaxDecBlocks whole blocks and a tail.
DecContents(blockSize) ==
    {Flatten(f, 1) \o tail :
        f \in UNION {[1..k -> WholeBlocks(blockSize)] : k \in 0..MaxDecBlocks},
        tail \in Tails(MaxDecTail)}

\* The leaves of a content as Encode makes them: the blocks, the pairs.
RECURSIVE LeavesOf(_, _, _, _, _)

LeavesEnc(s, secret, blocks, pairs, enc) ==
    LeavesOf(s, secret, Append(blocks, enc.block), Append(pairs, enc.refKey), enc.h)

LeavesStep(sn, secret, blocks, pairs, h) ==
    IF sn.ok
    THEN LeavesEnc(sn.s, secret, blocks, pairs, encryptLeafNode(sn.s.buf, secret, h))
    ELSE [blocks |-> blocks, pairs |-> pairs, h |-> h]

LeavesOf(s, secret, blocks, pairs, h) ==
    LeavesStep(splitterNext(s), secret, blocks, pairs, h)

\* The tree above leaves lv, the key of the first leaf replaced by zero in
\* the node that refers to it.
WrongKeyLevels(lv, blockSize) ==
    EncodeLevels(lv.blocks, [lv.pairs EXCEPT ![1].Key = ZeroCell], 0, blockSize, lv.h)

\* A tree made by someone else than Encode: the first leaf is referred to
\* with a key that is not the key it was enciphered with.
EncodeWrongKey(content, secret, blockSize) ==
    WrongKeyLevels(LeavesOf(newSplitter(content, blockSize), secret, <<>>, <<>>, <<>>),
                   blockSize)

\* The tree of a root at level 2 above the one node child.
EmptyNodeRoot(child, root, blockSize) ==
    [blocks |-> <<child.block, root.block>>, err |-> "nil", h |-> root.h,
     rc |-> [BlockSize |-> blockSize, Level |-> 2, Root |-> root.refKey]]

EmptyNodeAbove(child, blockSize) ==
    EmptyNodeRoot(child,
                  encryptInternalNode(internalNode(<<child.refKey>>, blockSize), 2, child.h),
                  blockSize)

\* A tree made by someone else than Encode: the root, at level 2, refers
\* to one node of level 1 that holds no reference at all; both blocks are
\* enciphered and named as encryptInternalNode does.
EncodeEmptyNode(blockSize) ==
    EmptyNodeAbove(encryptInternalNode(Zeroes(blockSize), 1, <<>>), blockSize)

\* The tree of one block, a root of level 1.
EmptyRootOf(root, blockSize) ==
    [blocks |-> <<root.block>>, err |-> "nil", h |-> root.h,
     rc |-> [BlockSize |-> blockSize, Level |-> 1, Root |-> root.refKey]]

\* A tree made by someone else than Encode: a root of level 1 that holds
\* no reference at all, enciphered and named as encryptInternalNode does.
EncodeEmptyRoot(blockSize) ==
    EmptyRootOf(encryptInternalNode(Zeroes(blockSize), 1, <<>>), blockSize)

\* The loop over the leaves of an encoder that does not pad: the whole
\* blocks of data are the leaves, and what is left over is dropped.
RECURSIVE EncodeUnpaddedLeaves(_, _, _, _, _, _)

\* enc is the leaf encrypted.
EncodeUnpaddedLeaf(data, secret, blockSize, blocks, referenceKeyPairs, enc) ==
    EncodeUnpaddedLeaves(SubSeq(data, blockSize + 1, Len(data)), secret, blockSize,
                         Append(blocks, enc.block),
                         Append(referenceKeyPairs, enc.refKey), enc.h)

EncodeUnpaddedLeaves(data, secret, blockSize, blocks, referenceKeyPairs, h) ==
    IF Len(data) < blockSize
    THEN EncodeLevels(blocks, referenceKeyPairs, 0, blockSize, h)
    ELSE EncodeUnpaddedLeaf(data, secret, blockSize, blocks, referenceKeyPairs,
                            encryptLeafNode(SubSeq(data, 1, blockSize), secret, h))

\* A tree made by someone else than Encode: the tree over the whole blocks
\* of a content of one block or more, with no padding in its last leaf.
EncodeUnpadded(data, secret, blockSize) ==
    EncodeUnpaddedLeaves(data, secret, blockSize, <<>>, <<>>, <<>>)

\* The trees a Decoder is given for a content: the one Encode makes, one
\* with a wrong key below the root, one with an empty internal node, one
\* with an empty root, and, for a content of whole blocks, one without
\* padding.
Trees(data, secret, blockSize) ==
    {Encode(Reader(data, -1), secret, blockSize, <<>>),
     EncodeWrongKey(Reader(data, -1), secret, blockSize),
     EncodeEmptyNode(blockSize),
     EncodeEmptyRoot(blockSize)}
        \cup (IF Len(data) >= blockSize /\ Len(data) % blockSize = 0
              THEN {EncodeUnpadded(data, secret, blockSize)} ELSE {})

\* The block store of a tree: every block under its Reference.
StoreOf(blocks, h) ==
    {[ref |-> Sum256(blocks[i], h).v, block |-> blocks[i]] : i \in 1..Len(blocks)}

\* What a store or a capability may have wrong: nothing; the k-th block of
\* the tree replaced by a block of the right size ("block": zeroes, "swap":
\* the next block of the tree), by a shorter block ("size"), by a longer
\* block ("long"), or missing; the key of the root replaced by zero ("key");
\* the level of the capability one more ("deeper"), zero ("leaf") or
\* less than zero ("negative").
Tampers(tree) ==
    {[kind |-> t, k |-> 0] : t \in {"none", "key", "deeper", "leaf", "negative"}}
        \cup {[kind |-> t, k |-> k] : t \in {"block", "swap", "size", "long", "missing"},
                                     k \in 1..Len(tree.blocks)}

\* store with the block under ref replaced by block.
Replaced(store, ref, block) ==
    {b \in store : b.ref # ref} \cup {[ref |-> ref, block |-> block]}

Tampered(store, ref, tamper, tree, blockSize) ==
    IF tamper.kind = "block" THEN Replaced(store, ref, Zeroes(blockSize))
    ELSE IF tamper.kind = "swap"
    THEN Replaced(store, ref, tree.blocks[1 + (tamper.k % Len(tree.blocks))])
    ELSE IF tamper.kind = "size" THEN Replaced(store, ref, Zeroes(blockSize - 1))
    ELSE IF tamper.kind = "long" THEN Replaced(store, ref, Zeroes(blockSize + 1))
    ELSE IF tamper.kind = "missing" THEN {b \in store : b.ref # ref}
    ELSE store

TamperedStore(tree, tamper, blockSize) ==
    IF tamper.k = 0 THEN StoreOf(tree.blocks, tree.h)
    ELSE Tampered(StoreOf(tree.blocks, tree.h), Sum256(tree.blocks[tamper.k], tree.h).v,
                  tamper, tree, blockSize)

TamperedCapability(tree, tamper) ==
    IF tamper.kind = "key" THEN [tree.rc EXCEPT !.Root.Key = ZeroCell]
    ELSE IF tamper.kind = "deeper" THEN [tree.rc EXCEPT !.Level = @ + 1]
    ELSE IF tamper.kind = "leaf" THEN [tree.rc EXCEPT !.Level = 0]
    ELSE IF tamper.kind = "negative" THEN [tree.rc EXCEPT !.Level = 0 - 1]
    ELSE tree.rc

\* What Encode returned, t, as the capability and the (Reference, Block)
\* pairs of an Encoder run.
EncodeResult(t) ==
    [rc |-> t.rc,
     emitted |-> [i \in 1..Len(t.blocks) |->
                    [ref |-> Sum256(t.blocks[i], t.h).v, block |-> t.blocks[i]]],
     err |-> t.err,
     chunk |-> 0]

\* NewDecoder over a store and a capability; the Encoder holds the content
\* and is never run.  What Encode makes of the content is kept for
\* comparison, its hash values taken from the table of the tree given.
InitDec ==
    /\ \E blockSize \in BlockSizes, secret \in Secrets :
          \E data \in DecContents(blockSize) :
             /\ e = NewEncoder(Reader(data, -1), secret, blockSize, "cur")
             /\ \E tree \in Trees(data, secret, blockSize) :
                   /\ first = <<EncodeResult(Encode(Reader(data, -1), secret,
                                                     blockSize, tree.h))>>
                   /\ \E tamper \in Tampers(tree) :
                         d = <<NewDecoder(TamperedStore(tree, tamper, blockSize),
                                          TamperedCapability(tree, tamper), tree.h)>>
    /\ ret = "none"
    /\ emitted = <<>>
    /\ dret = "none"
    /\ decoded = <<>>
    /\ yielded = <<>>
    /\ sp = <<>>
    /\ sok = "none"
    /\ split = <<>>
    /\ pad = <<>>
    /\ fn = <<>>

\* DecodeRecursive over the store and the capability the Decoder was
\* given, once the Decoder is through; it goes on with the Decoder's table
\* of hash and key-stream values, so that equal cells mean equal bytes.
DecRecursive ==
    /\ d # <<>>
    /\ dret \in {"false", "panic"}
    /\ fn = <<>>
    /\ fn' = <<[kind |-> "decode", arg |-> d[1].rc,
                calls |-> <<[call |-> "DecodeRecursive",
                             res |-> DecodeRecursive(d[1].fetch, d[1].rc, d[1].h)]>>]>>
    /\ UNCHANGED <<encVars, decVars, first, splitVars, pad>>

SpecDec == InitDec /\ [][DecNext]_vars

\* The Decoder and, after it, DecodeRecursive on what it was given.
NextDecBoth == DecNext \/ DecRecursive

SpecDecBoth == InitDec /\ [][NextDecBoth]_vars

\* The caller goes on calling Next until it returns false, the loop of
\* testDecode: time and again Next has returned false (or panicked), or
\* time and again a call of Next is made.  This is the weak fairness of
\* DecNext with its enabling condition written as a state predicate.
SpecDecFair ==
    SpecDec /\ ([]<>(dret \in {"false", "panic"}) \/ []<><<DecNext>>_vars)

\* ------------------------------------------ the ReadCapability as bytes

\* The sizes here are those of the model: a binary ReadCapability is one
\* byte of block size, one of level, the Reference and the Key
\* (2 + 32 + 32 = 66 bytes in the program).
marshalledLen == 2 + referenceKeyLen

RECURSIVE TwoTo(_)
TwoTo(n) == IF n = 0 THEN 1 ELSE 2 * TwoTo(n - 1)

\* 1 << n with the shift count reduced to its four lowest bits.
ShiftOneMasked(n) == TwoTo(n % 16)

\* 1 << n for an int of 64 bits and a shift count of type byte: counts of
\* 64 and more shift the bit out, they are not reduced modulo the width.
ShiftOne(n) ==
    IF n >= 64 THEN 0 ELSE IF n = 63 THEN 0 - TwoTo(63) ELSE TwoTo(n)

\* byte(x) of an int.
ToByte(x) == x % 256

\* AppendBinary not looking at the level.
AppendBinaryAnyLevel(rc, data) ==
    IF rc.BlockSize # 1024 /\ rc.BlockSize # 32768
    THEN [data |-> <<>>, err |-> "unsupported block size"]
    ELSE [data |-> data \o <<IF rc.BlockSize = 1024 THEN 10 ELSE 15, ToByte(rc.Level),
                              rc.Root.Reference, rc.Root.Key>>,
          err |-> "nil"]

AppendBinary(rc, data) ==
    IF rc.BlockSize # 1024 /\ rc.BlockSize # 32768
    THEN [data |-> <<>>, err |-> "unsupported block size"]
    ELSE IF rc.Level > 255 THEN [data |-> <<>>, err |-> "level too large"]
    ELSE [data |-> data \o <<IF rc.BlockSize = 1024 THEN 10 ELSE 15, ToByte(rc.Level),
                              rc.Root.Reference, rc.Root.Key>>,
          err |-> "nil"]

MarshalBinary(rc) == AppendBinary(rc, <<>>)

\* UnmarshalBinary once the data is long enough and its first byte is
\* shifted to blockSize.
UnmarshalFields(rc, data, blockSize) ==
    IF blockSize # 1024 /\ blockSize # 32768
    THEN [rc |-> [rc EXCEPT !.BlockSize = blockSize], err |-> "unsupported block size"]
    ELSE [rc |-> [BlockSize |-> blockSize, Level |-> data[2],
                  Root |-> [Reference |-> data[3], Key |-> data[3 + ReferenceSize]]],
          err |-> "nil"]

\* UnmarshalBinary on the capability rc: the capability it leaves, the error.
UnmarshalBinary(rc, data) ==
    IF Len(data) < marshalledLen THEN [rc |-> rc, err |-> "data too short"]
    ELSE UnmarshalFields(rc, data, ShiftOne(data[1]))

\* ReadCapability.Equal.
Equal(rc, other) ==
    /\ rc.BlockSize = other.BlockSize
    /\ rc.Level = other.Level
    /\ rc.Root.Reference = other.Root.Reference
    /\ rc.Root.Key = other.Root.Key

\* ----------------------------------------------------------------- the URN

\* A string is the sequence of its characters.
urnPrefix == <<"u", "r", "n", ":", "e", "r", "i", "s", ":">>

\* The alphabet of base32.StdEncoding.
encodeStd ==
    <<"A", "B", "C", "D", "E", "F", "G", "H", "I", "J", "K", "L", "M", "N", "O", "P",
      "Q", "R", "S", "T", "U", "V", "W", "X", "Y", "Z", "2", "3", "4", "5", "6", "7">>

\* The k bits of v, the most significant first.
Bits(v, k) == [i \in 1..k |-> (v \div TwoTo(k - i)) % 2]

RECURSIVE BitsValue(_)
BitsValue(bits) ==
    IF bits = <<>> THEN 0
    ELSE 2 * BitsValue(SubSeq(bits, 1, Len(bits) - 1)) + bits[Len(bits)]

RECURSIVE BitsOfBytes(_)
BitsOfBytes(data) ==
    IF data = <<>> THEN <<>> ELSE Bits(Head(data), 8) \o BitsOfBytes(Tail(data))

\* base32Enc.EncodeToString: five bits a character, the last character
\* filled up with zero bits, no padding characters.
EncodedLen(n) == (n * 8 + 4) \div 5

EncodeToString(data) ==
    [i \in 1..EncodedLen(Len(data)) |->
        encodeStd[1 + BitsValue(SubSeq(BitsOfBytes(data) \o <<0, 0, 0, 0>>,
                                       5 * (i - 1) + 1, 5 * i))]]

\* The value of a character, 255 for one that is not of the alphabet.
decodeMap(c) ==
    IF \E i \in 1..32 : encodeStd[i] = c
    THEN (CHOOSE i \in 1..32 : encodeStd[i] = c) - 1
    ELSE 255

\* How many bytes a quantum of dlen characters is unpacked to.
QuantumBytes(dlen) ==
    IF dlen = 8 THEN 5
    ELSE IF dlen = 7 THEN 4
    ELSE IF dlen = 5 THEN 3
    ELSE IF dlen = 4 THEN 2
    ELSE IF dlen = 2 THEN 1
    ELSE 0

RECURSIVE BitsOfChars(_)
BitsOfChars(q) ==
    IF q = <<>> THEN <<>> ELSE Bits(decodeMap(Head(q)), 5) \o BitsOfChars(Tail(q))

decodeQuantum(q) ==
    [i \in 1..QuantumBytes(Len(q)) |->
        BitsValue(SubSeq(BitsOfChars(q), 8 * (i - 1) + 1, 8 * i))]

RECURSIVE decodeQuanta(_)
decodeQuanta(str) ==
    IF Len(str) <= 8 THEN decodeQuantum(str)
    ELSE decodeQuantum(SubSeq(str, 1, 8)) \o decodeQuanta(SubSeq(str, 9, Len(str)))

\* base32Enc.DecodeString.
DecodeString(str) ==
    IF \E i \in 1..Len(str) : decodeMap(str[i]) = 255
    THEN [data |-> <<>>, err |-> "CorruptInputError"]
    ELSE [data |-> decodeQuanta(str), err |-> "nil"]

\* ReadCapability.URN once the capability is marshalled.
URNOf(mb) ==
    IF mb.err # "nil" THEN [urn |-> <<>>, err |-> mb.err]
    ELSE [urn |-> urnPrefix \o EncodeToString(mb.data), err |-> "nil"]

URN(rc) == URNOf(MarshalBinary(rc))

\* ParseReadCapabilityURN once the part after the prefix is decoded.
ParseDecoded(dec) ==
    IF dec.err # "nil" THEN [rc |-> ZeroCapability, err |-> dec.err]
    ELSE UnmarshalBinary(ZeroCapability, dec.data)

\* ParseReadCapabilityURN: urn[:9] panics when the string is shorter.
ParseReadCapabilityURN(urn) ==
    IF Len(urn) < 9 THEN [rc |-> ZeroCapability, err |-> "panic"]
    ELSE IF SubSeq(urn, 1, 9) # urnPrefix
    THEN [rc |-> ZeroCapability, err |-> "invalid URN prefix"]
    ELSE ParseDecoded(DecodeString(SubSeq(urn, 10, Len(urn))))

\* ------------------------------------- the capability functions alone

\* The capabilities given to MarshalBinary and URN: the fields of a
\* ReadCapability are public, BlockSize and Level are ints.
CapBlockSizes == {0, 512, 1024, 2048, 32768}
CapLevels == {0 - 1, 0, 1, 255, 256}
CapCells == {0, 1, 255}

Capabilities ==
    {[BlockSize |-> b, Level |-> l, Root |-> [Reference |-> r, Key |-> k]] :
        b \in CapBlockSizes, l \in CapLevels, r \in CapCells, k \in CapCells}

\* The first bytes of the data given to UnmarshalBinary: the two of the
\* format, their neighbours, and shift counts of 64 and more.
FirstBytes == {0, 9, 10, 11, 15, 16, 26, 30, 64, 74, 79, 138, 143, 255}

\* Data of the full length, of every shorter length, and with one byte more.
DataOf(size, cells) ==
    {SubSeq(<<size>> \o m \o <<x>>, 1, n) :
        m \in [1..(marshalledLen - 1) -> cells], x \in cells, n \in 0..(marshalledLen + 1)}

Datas == UNION {DataOf(size, {0, 255}) : size \in FirstBytes}

\* The strings given to ParseReadCapabilityURN: URNs of data with a good
\* or a bad first byte, every string such a URN begins with, and such a
\* URN with one character replaced.
URNTexts ==
    {urnPrefix \o EncodeToString(dt) :
        dt \in UNION {DataOf(size, {1, 254}) : size \in {10, 11, 15, 74}}}

Truncated(t) == {SubSeq(t, 1, n) : n \in 0..Len(t)}

Altered(t) == {[t EXCEPT ![i] = c] : i \in 1..Len(t), c \in {"a", "1", "U"}}

URNStrings == UNION {Truncated(t) \cup Altered(t) : t \in URNTexts}

\* The variables the capability functions leave alone.
CapIdle ==
    /\ sp = <<>>
    /\ sok = "none"
    /\ split = <<>>
    /\ pad = <<>>
    /\ SplitIdle

\* A capability, binary data or a string, before any function is called.
InitCap ==
    /\ \/ \E rc \in Capabilities : fn = <<[kind |-> "rc", arg |-> rc, calls |-> <<>>]>>
       \/ \E data \in Datas : fn = <<[kind |-> "data", arg |-> data, calls |-> <<>>]>>
       \/ \E urn \in URNStrings : fn = <<[kind |-> "urn", arg |-> urn, calls |-> <<>>]>>
    /\ CapIdle

\* The function call made last, and the one before it.
LastCall == fn[1].calls[Len(fn[1].calls)]
Called(call, res) ==
    /\ fn' = <<[fn[1] EXCEPT !.calls = Append(@, [call |-> call, res |-> res])]>>
    /\ UNCHANGED <<encVars, decVars, first, splitVars, pad>>

\* rc.MarshalBinary().
CapMarshal ==
    /\ fn # <<>>
    /\ fn[1].kind = "rc"
    /\ fn[1].calls = <<>>
    /\ Called("MarshalBinary", MarshalBinary(fn[1].arg))

\* rc.UnmarshalBinary(data) on a zero capability: of the data given, or of
\* what MarshalBinary returned.
CapUnmarshal ==
    /\ fn # <<>>
    /\ \/ /\ fn[1].kind = "data"
          /\ fn[1].calls = <<>>
          /\ Called("UnmarshalBinary", UnmarshalBinary(ZeroCapability, fn[1].arg))
       \/ /\ Len(fn[1].calls) = 1
          /\ LastCall.call = "MarshalBinary"
          /\ LastCall.res.err = "nil"
          /\ Called("UnmarshalBinary", UnmarshalBinary(ZeroCapability, LastCall.res.data))

\* rc.URN().
CapURN ==
    /\ fn # <<>>
    /\ fn[1].kind = "rc"
    /\ fn[1].calls = <<>>
    /\ Called("URN", URN(fn[1].arg))

\* ParseReadCapabilityURN: of the string given, or of what URN returned.
CapParse ==
    /\ fn # <<>>
    /\ \/ /\ fn[1].kind = "urn"
          /\ fn[1].calls = <<>>
          /\ Called("ParseReadCapabilityURN", ParseReadCapabilityURN(fn[1].arg))
       \/ /\ Len(fn[1].calls) = 1
          /\ LastCall.call = "URN"
          /\ LastCall.res.err = "nil"
          /\ Called("ParseReadCapabilityURN", ParseReadCapabilityURN(LastCall.res.urn))

NextCap == CapMarshal \/ CapUnmarshal \/ CapURN \/ CapParse

SpecCap == InitCap /\ [][NextCap]_vars

\* --------------------------------------- constructInternalNodes alone

MaxPairs == 5

\* The lists of one to MaxPairs reference-key pairs.
PairLists ==
    UNION {[1..k -> {[Reference |-> r, Key |-> c] : r \in {1, 2}, c \in {0, 2}}] :
              k \in 1..MaxPairs}

\* The plaintext nodes given to decodeInternalNode: any cells.
PlainNodes(blockSize) == [1..blockSize -> {0, 1, 2}]

\* A list of pairs or a plaintext node, and a block size, before any
\* function is called.
InitNodes ==
    /\ \E blockSize \in BlockSizes :
          \/ \E pairs \in PairLists :
                fn = <<[kind |-> "pairs",
                        arg |-> [pairs |-> pairs, blockSize |-> blockSize],
                        calls |-> <<>>]>>
          \/ \E node \in PlainNodes(blockSize) :
                fn = <<[kind |-> "node",
                        arg |-> [node |-> node, blockSize |-> blockSize],
                        calls |-> <<>>]>>
    /\ CapIdle

\* constructInternalNodes(referenceKeyPairs, blockSize).
ConstructNodes ==
    /\ fn # <<>>
    /\ fn[1].kind = "pairs"
    /\ fn[1].calls = <<>>
    /\ Called("constructInternalNodes",
              constructInternalNodes(fn[1].arg.pairs, fn[1].arg.blockSize))

\* decodeInternalNode(data, blockSize): of the node given, or of the first
\* node that constructInternalNodes returned.
DecodeNode ==
    /\ fn # <<>>
    /\ \/ /\ fn[1].kind = "node"
          /\ fn[1].calls = <<>>
          /\ Called("decodeInternalNode",
                    decodeInternalNode(fn[1].arg.node, fn[1].arg.blockSize))
       \/ /\ fn[1].kind = "pairs"
          /\ Len(fn[1].calls) = 1
          /\ Called("decodeInternalNode",
                    decodeInternalNode(LastCall.res[1], fn[1].arg.blockSize))

\* A Decoder at work on a capability of level 2, one frame on its stack.
DecoderAtWork(blockSize) ==
    [NewDecoder({}, [BlockSize |-> blockSize, Level |-> 2, Root |-> ZeroPair], <<>>)
        EXCEPT !.didInit = TRUE,
               !.stack = <<[ref |-> ZeroPair, level |-> 1]>>]

\* Decoder.decodeInternalNode(node, atLevel) of the node given.
DecoderDecodeNode ==
    /\ fn # <<>>
    /\ fn[1].kind = "node"
    /\ fn[1].calls = <<>>
    /\ Called("Decoder.decodeInternalNode",
              DecoderDecodeInternalNode(DecoderAtWork(fn[1].arg.blockSize),
                                        fn[1].arg.node, 0))

NextNodes == ConstructNodes \/ DecodeNode \/ DecoderDecodeNode

SpecNodes == InitNodes /\ [][NextNodes]_vars

\* ------------------------------------------- what the properties speak of

\* The content given to NewEncoder, and whether its source never fails.
TheContent == e.content.data
NeverFails == e.content.failAt = -1

\* The Encoder ran to completion: Next returned false with Err() = nil.
Finished == ret = "false" /\ e.err = "nil"

\* The References of the true Next calls, in order.
EmittedRefs == [i \in 1..Len(emitted) |-> emitted[i].ref]

\* What the batch Encode function returns for the same content.
Batch == Encode(Reader(TheContent, -1), e.secret, e.blockSize, e.h)

\* The References of a list of blocks: refs so far, table h.
RECURSIVE BlockRefs(_, _, _)
BlockRefs(blocks, refs, h) ==
    IF blocks = <<>> THEN refs
    ELSE LET r == Sum256(Head(blocks), h)
         IN BlockRefs(Tail(blocks), Append(refs, r.v), r.h)

\* The list (leaves left to right, then level 1 left to right, ...) of the
\* References of the tree of the content.
TreeOrder == BlockRefs(Batch.blocks, <<>>, Batch.h)

\* s without every element that occurred earlier in it.
RECURSIVE FirstOccurrences(_, _)
FirstOccurrences(s, seen) ==
    IF s = <<>> THEN <<>>
    ELSE IF Head(s) \in seen THEN FirstOccurrences(Tail(s), seen)
    ELSE <<Head(s)>> \o FirstOccurrences(Tail(s), seen \cup {Head(s)})

IsPrefix(a, b) == Len(a) <= Len(b) /\ SubSeq(b, 1, Len(a)) = a

\* The References of the nodes of the tree below the pairs on stack, read
\* from the store as a decoder reads it: acc so far, table h.
RECURSIVE TreeWalk(_, _, _, _, _)
TreeWalk(stack, acc, store, blockSize, h) ==
    IF stack = <<>> THEN acc
    ELSE LET curr == Head(stack)
             dn == dereferenceNode(store, curr.ref, curr.level, blockSize, h)
             dec == decodeInternalNode(dn.block, blockSize)
             kids == [i \in 1..Len(dec.refs) |-> [ref |-> dec.refs[i], level |-> curr.level - 1]]
         IN IF curr.level > 0 /\ dn.err = "nil" /\ dec.err = "nil"
            THEN TreeWalk(kids \o Tail(stack), acc \cup {curr.ref.Reference},
                          store, blockSize, dn.h)
            ELSE TreeWalk(Tail(stack), acc \cup {curr.ref.Reference},
                          store, blockSize, dn.h)

TreeRefs ==
    TreeWalk(<<[ref |-> Capability(e).Root, level |-> Capability(e).Level]>>, {},
             SeqToSet(emitted), e.blockSize, e.h)

RECURSIVE Pow(_, _)
Pow(a, n) == IF n = 0 THEN 1 ELSE a * Pow(a, n - 1)

\* The smallest L >= from with a^L >= leaves.
RECURSIVE SmallestLevel(_, _, _)
SmallestLevel(leaves, a, from) ==
    IF Pow(a, from) >= leaves THEN from ELSE SmallestLevel(leaves, a, from + 1)

\* ---------------------------------------------------------- the properties

\* C1: round trip.  A Decoder given Capability() and the blocks the Encoder
\* emitted ends with Err() = nil, and the Block() values of its true Next
\* calls, concatenated, are the content.
C1_RoundTrip ==
    (d # <<>> /\ dret # "none") =>
        /\ dret # "panic"
        /\ dret = "true" => IsPrefix(decoded, TheContent)
        /\ dret = "false" => d[1].err = "nil" /\ decoded = TheContent

\* C2: dedup.  No two Next calls of one run that return true expose the same
\* Reference().
C2_NoReferenceTwice ==
    \A i, j \in 1..Len(emitted) : i # j => emitted[i].ref # emitted[j].ref

\* C2 witness: a finished run in which a block was skipped as already seen.
C2_Witness ==
    /\ Finished
    /\ Len(emitted) >= 2
    /\ Len(emitted) < Len(Batch.blocks)

\* C3: the References emitted are exactly those of the nodes of the tree
\* rooted at Capability().Root, each emitted once.
C3_EmittedIsTree ==
    Finished =>
        /\ SeqToSet(EmittedRefs) = TreeRefs
        /\ Len(emitted) = Cardinality(TreeRefs)

\* C4: the Capability() of the streaming Encoder is the ReadCapability the
\* batch Encode function returns.
C4_SameCapabilityAsBatch ==
    Finished => Capability(e) = Batch.rc

\* C5: emission order.  The References exposed are, in order, the first
\* occurrences in the list leaves, level 1, level 2, ... of the tree.
C5_EmissionOrder ==
    (NeverFails /\ ret \in {"none", "true", "false"}) =>
        /\ IsPrefix(EmittedRefs, FirstOccurrences(TreeOrder, {}))
        /\ Finished => EmittedRefs = FirstOccurrences(TreeOrder, {})

\* C6: reference integrity.  After a Next that returns true, Reference() is
\* the unkeyed hash of Block().
C6_ReferenceIsHashOfBlock ==
    ret = "true" => Reference(e) = Sum256(Block(e), e.h).v

\* C6 witness: a Next that returned true with an internal block.
C6_Witness == ret = "true" /\ e.state = 1 /\ e.level >= 1

C8_DoneState ==
    /\ [](/\ Finished => e.state = 2
          /\ e.state = 2 =>
                /\ Len(e.referenceKeyPairs) = 1
                /\ Capability(e) = [BlockSize |-> e.blockSize, Level |-> e.level,
                                    Root |-> e.referenceKeyPairs[1]]
                /\ EncoderNext(e) = [res |-> "false", e |-> e]
          /\ e.state # 2 => e.rootRefKey = ZeroPair)
    /\ [][e.state = 2 => e' = e /\ ret' = ret /\ emitted' = emitted]_vars

\* C8 witness: the done state of a tree with internal nodes.
C8_Witness == Finished /\ e.state = 2 /\ e.level >= 1 /\ e.rootRefKey # ZeroPair

\* C9: sticky errors.  When the source fails, the Next in progress returns
\* false with Err() that error; a later Next returns false, reads nothing,
\* emits nothing, and Capability() is the zero ReadCapability.
C9_StickyError ==
    /\ [](e.err # "nil" =>
            /\ e.err = "io"
            /\ ret = "false"
            /\ Capability(e) = ZeroCapability
            /\ EncoderNext(e) = [res |-> "false", e |-> e])
    /\ [][e.err # "nil" => UNCHANGED vars]_vars
    /\ []((e.splitter # <<>> /\ e.splitter[1].err # "nil") =>
            e.err = e.splitter[1].err /\ ret = "false")

\* C9 witness: the source failed after a block had been emitted.
C9_Witness == e.err = "io" /\ ret = "false" /\ Len(emitted) >= 1

\* C10: termination.  Every call of Next on a content whose source never
\* fails returns.
C10_NextReturns == NeverFails => ret # "hang"

\* C11: two independent Encoder runs over the same content, secret and
\* block size end with the same Capability() and the same sequence of
\* emitted (Reference, Block) pairs, however the source of either run
\* splits its data across Read calls.
C11_Convergence ==
    (first # <<>> /\ ret = "false") =>
        /\ e.err = first[1].err
        /\ Capability(e) = first[1].rc
        /\ emitted = first[1].emitted

\* Both runs are over, the first fed one or two cells per Read, and they
\* emitted leaves and internal nodes.
C11_Witness ==
    /\ first # <<>>
    /\ ret = "false"
    /\ e.err = "nil"
    /\ first[1].chunk \in {1, 2}
    /\ Len(emitted) >= 3
    /\ Capability(e).Level >= 1

\* The content given to the splitter and its block size.
SplitContent == sp[1].r.data
SplitBlockSize == sp[1].blockSize

\* The i-th block of the padded content: a full block of the content, or
\* what is left of it followed by 0x80 and zeroes.
PaddedBlock(i) ==
    IF i * SplitBlockSize <= Len(SplitContent)
    THEN SubSeq(SplitContent, (i - 1) * SplitBlockSize + 1, i * SplitBlockSize)
    ELSE SubSeq(SplitContent, (i - 1) * SplitBlockSize + 1, Len(SplitContent))
            \o <<PadCell>>
            \o Zeroes(i * SplitBlockSize - Len(SplitContent) - 1)

\* C12: for a content of n bytes and block size bs the splitter's Next
\* returns true exactly floor(n/bs)+1 times, each Block() of bs bytes: the
\* full blocks of the content in order, then the remaining n mod bs bytes
\* followed by 0x80 and zeroes.
C12_SplitterBlocks ==
    sp # <<>> =>
        /\ Len(split) <= Len(SplitContent) \div SplitBlockSize + 1
        /\ \A i \in 1..Len(split) :
              Len(split[i]) = SplitBlockSize /\ split[i] = PaddedBlock(i)
        /\ sok = "false" => Len(split) = Len(SplitContent) \div SplitBlockSize + 1

\* The splitter is over for a content of two full blocks: the last of its
\* three blocks is 0x80 and zeroes.
C12_Witness ==
    /\ sp # <<>>
    /\ sok = "false"
    /\ Len(SplitContent) = 2 * SplitBlockSize
    /\ Len(split) = 3
    /\ split[3] = <<PadCell>> \o Zeroes(SplitBlockSize - 1)

\* C13: the blocks the splitter yields for a content B, joined, have a
\* length that is a multiple of bs, and removePadding of them returns B.
C13_PaddingLaw ==
    (sp # <<>> /\ pad # <<>>) =>
        /\ Len(pad[1].buf) % pad[1].blockSize = 0
        /\ pad[1].res # <<>> =>
              /\ pad[1].res[1].err = "nil"
              /\ pad[1].res[1].out = SplitContent

\* removePadding gave back a content that ends with 0x80 and a zero and
\* is longer than a block.
C13_Witness ==
    /\ sp # <<>>
    /\ pad # <<>>
    /\ pad[1].res # <<>>
    /\ pad[1].res[1].out = SplitContent
    /\ Len(SplitContent) > SplitBlockSize
    /\ SubSeq(SplitContent, Len(SplitContent) - 1, Len(SplitContent)) = <<PadCell, ZeroCell>>

\* The index of the last 0x80 of buf, 0 when it has none.
RECURSIVE LastPad(_, _)
LastPad(buf, i) ==
    IF i = 0 THEN 0 ELSE IF buf[i] = PadCell THEN i ELSE LastPad(buf, i - 1)

\* The three cases of an invalid padding.
InvalidPadding(buf, blockSize) ==
    \/ Len(buf) < blockSize
    \/ \E i \in LastPad(buf, Len(buf)) + 1 .. Len(buf) : buf[i] \notin {ZeroCell, PadCell}
    \/ \A i \in Len(buf) - blockSize + 1 .. Len(buf) : i >= 1 => buf[i] # PadCell

\* C14: removePadding(buf, bs) returns ErrInvalidPadding exactly when buf
\* is shorter than bs, or a byte other than 0x00 and 0x80 comes after the
\* last 0x80, or none of the last bs bytes is 0x80; otherwise it returns
\* what precedes the last 0x80.
C14_RemovePadding ==
    (sp = <<>> /\ pad # <<>> /\ pad[1].res # <<>>) =>
        IF InvalidPadding(pad[1].buf, pad[1].blockSize)
        THEN pad[1].res[1].err = "ErrInvalidPadding"
        ELSE /\ pad[1].res[1].err = "nil"
             /\ pad[1].res[1].out =
                   SubSeq(pad[1].buf, 1, LastPad(pad[1].buf, Len(pad[1].buf)) - 1)

\* removePadding refused a buffer that has a 0x80 among its last bs bytes
\* and another byte after it.
C14_Witness ==
    /\ sp = <<>>
    /\ pad # <<>>
    /\ pad[1].res # <<>>
    /\ pad[1].res[1].err = "ErrInvalidPadding"
    /\ Len(pad[1].buf) > pad[1].blockSize
    /\ pad[1].buf[Len(pad[1].buf) - 1] = PadCell
    /\ pad[1].buf[Len(pad[1].buf)] = 1

\* The Decoder was given the tree of the content: the capability and the
\* blocks that Encode makes for it.
WellFormed ==
    /\ d # <<>>
    /\ first # <<>>
    /\ d[1].rc = first[1].rc
    /\ d[1].fetch = SeqToSet(first[1].emitted)

\* The leaves of the tree of the content, left to right, in plain text.
NumLeaves == Len(TheContent) \div e.blockSize + 1
Leaf(i) ==
    SubSeq(TheContent \o <<PadCell>> \o Zeroes(NumLeaves * e.blockSize),
           (i - 1) * e.blockSize + 1, i * e.blockSize)

\* What is left of the last leaf without its padding.
LastLeaf ==
    SubSeq(TheContent, (NumLeaves - 1) * e.blockSize + 1, Len(TheContent))

\* C15: for a well-formed tree the i-th Next that returns true exposes
\* the i-th leaf of the tree, the leaves counted from left to right.
C15_LeavesInOrder ==
    WellFormed =>
        /\ Len(yielded) <= NumLeaves
        /\ \A i \in 1..Len(yielded) :
              yielded[i] = IF i < NumLeaves THEN Leaf(i) ELSE LastLeaf
        /\ dret = "true" => d[1].block = yielded[Len(yielded)]

\* Three leaves of a tree of two levels were exposed, no two the same.
C15_Witness ==
    /\ WellFormed
    /\ d[1].rc.Level = 2
    /\ Len(yielded) = 3
    /\ yielded[1] # yielded[2]
    /\ yielded[2] # yielded[3]
    /\ yielded[1] # yielded[3]

\* The node the Decoder fetched last, and what dereferenceNode makes of it.
LastFetched == d[1].fetched[Len(d[1].fetched)]
LastNode ==
    dereferenceNode(d[1].fetch, LastFetched.ref, LastFetched.level,
                    d[1].rc.BlockSize, d[1].h)

\* The Decoder has just dereferenced a leaf.
AtLeaf ==
    /\ d # <<>>
    /\ d[1].fetched # <<>>
    /\ LastFetched.level = 0
    /\ LastNode.err = "nil"

\* How many leaves the Decoder has fetched.
LeavesFetched == Cardinality({i \in 1..Len(d[1].fetched) : d[1].fetched[i].level = 0})

\* C16: the Decoder removes the padding of a leaf exactly when the stack
\* is empty right after the leaf is popped; every other leaf is published
\* as the full decrypted block.  In a well-formed tree the one leaf
\* without its padding is the rightmost.
C16_UnpadsLastLeafOnly ==
    /\ (AtLeaf /\ d[1].stack # <<>>) =>
          /\ dret = "true"
          /\ d[1].block = LastNode.block
          /\ Len(d[1].block) = d[1].rc.BlockSize
    /\ (AtLeaf /\ d[1].stack = <<>> /\ dret = "true") =>
          /\ removePadding(LastNode.block, d[1].rc.BlockSize).err = "nil"
          /\ d[1].block = removePadding(LastNode.block, d[1].rc.BlockSize).out
    /\ (WellFormed /\ AtLeaf) =>
          (d[1].stack = <<>> <=> LeavesFetched = NumLeaves)

\* The last leaf of a tree of two levels was published without its
\* padding, after leaves published in full.
C16_Witness ==
    /\ WellFormed
    /\ AtLeaf
    /\ d[1].rc.Level = 2
    /\ d[1].stack = <<>>
    /\ dret = "true"
    /\ Len(yielded) = 3
    /\ Len(yielded[3]) < Len(yielded[2])

\* The Decoder has just dereferenced the final leaf, and nothing is left
\* of it without its padding.
AtEmptyLastLeaf ==
    /\ AtLeaf
    /\ d[1].stack = <<>>
    /\ removePadding(LastNode.block, d[1].rc.BlockSize).err = "nil"
    /\ removePadding(LastNode.block, d[1].rc.BlockSize).out = <<>>

\* C17: whenever Decoder.Next returns true, Block() is not empty: a leaf
\* that is not the final one has blockSize bytes, and a final leaf of which
\* nothing is left without its padding is not published, Next returning
\* false with no error.
C17_BlockNotEmpty ==
    d # <<>> =>
        /\ dret = "true" => Len(DecoderBlock(d[1])) > 0
        /\ \A i \in 1..Len(yielded) : Len(yielded[i]) > 0
        /\ (dret = "true" /\ d[1].stack # <<>>) =>
              Len(DecoderBlock(d[1])) = d[1].rc.BlockSize
        /\ AtEmptyLastLeaf =>
              /\ dret = "false"
              /\ d[1].err = "nil"
              /\ \A i \in 1..Len(yielded) : Len(yielded[i]) = d[1].rc.BlockSize

\* The final leaf of a content of two whole blocks was dereferenced: it is
\* padding only and Next returned false after two blocks.
C17_Witness ==
    /\ WellFormed
    /\ AtEmptyLastLeaf
    /\ dret = "false"
    /\ Len(yielded) = 2
    /\ Len(TheContent) = 2 * e.blockSize

\* C18: for a well-formed tree Decoder.Next returns false after finitely
\* many calls, with Err() = nil; once it has returned false it returns
\* false on every later call and calls fetch no more; for the tree of the
\* empty content the very first Next returns false with Err() = nil.
C18_Termination ==
    /\ [](WellFormed => <>(dret = "false" /\ d[1].err = "nil"))
    /\ [][dret = "false" =>
             /\ dret' = "false"
             /\ d'[1].fetched = d[1].fetched
             /\ d'[1].err = d[1].err
             /\ yielded' = yielded]_vars
    /\ [][(WellFormed /\ dret = "none" /\ TheContent = <<>>) =>
             (dret' = "false" /\ d'[1].err = "nil" /\ yielded' = <<>>)]_vars

\* Next returned false with no error after the three leaves of a tree of
\* two levels, every block fetched.
C18_Witness ==
    /\ WellFormed
    /\ dret = "false"
    /\ d[1].err = "nil"
    /\ d[1].rc.Level = 2
    /\ LeavesFetched = 3
    /\ Len(d[1].fetched) = 6

\* What fetch returns for the node fetched last.
LastBlock == Fetch(d[1].fetch, LastFetched.ref.Reference)

\* fetch returned, for the node fetched last, a block of the right length
\* whose hash is not the Reference asked for.
InvalidBlockFetched ==
    /\ d # <<>>
    /\ d[1].fetched # <<>>
    /\ LastBlock.err = "nil"
    /\ Len(LastBlock.block) = d[1].rc.BlockSize
    /\ Sum256(LastBlock.block, d[1].h).v # LastFetched.ref.Reference

\* The pairs that decoding the block fetched last as an internal node
\* would give.
LastBlockPairs ==
    SeqToSet(decodeInternalNode(
        XORKeyStream(LastFetched.ref.Key, Nonce(LastFetched.level),
                     LastBlock.block, d[1].h).data,
        d[1].rc.BlockSize).refs)

\* C19: when fetch returns a block of the right length whose hash is not
\* the Reference asked for, Next returns false with ErrInvalidBlock, and
\* the block is neither published nor expanded into children; this holds
\* for every node, the root included.
C19_InvalidBlock ==
    /\ [](InvalidBlockFetched =>
             /\ dret = "false"
             /\ d[1].err = "ErrInvalidBlock"
             /\ DecoderBlock(d[1]) = <<>>
             /\ \A i \in 1..Len(d[1].stack) : d[1].stack[i].ref \notin LastBlockPairs
             /\ LastFetched.ref = d[1].rc.Root => d[1].stack = <<>>)
    /\ [][(InvalidBlockFetched' /\ d'[1].fetched # d[1].fetched) =>
             yielded' = yielded]_vars

\* Next returned false with ErrInvalidBlock at a leaf that is not the
\* first, in a tree of two levels.
C19_Witness ==
    /\ InvalidBlockFetched
    /\ d[1].err = "ErrInvalidBlock"
    /\ d[1].rc.Level = 2
    /\ LastFetched.level = 0
    /\ Len(yielded) >= 1

\* The hash of the plain text of block deciphered as the root.
RootHash(block) ==
    LET plain == XORKeyStream(d[1].rc.Root.Key, Nonce(d[1].rc.Level), block, d[1].h)
    IN Sum256(plain.data, plain.h).v

\* The root is an internal node and its block has the right size and the
\* right hash, but the hash of its plain text is not the key of the
\* capability.
RootKeyMismatch ==
    /\ d # <<>>
    /\ d[1].rc.Level > 0
    /\ Fetch(d[1].fetch, d[1].rc.Root.Reference).err = "nil"
    /\ Len(Fetch(d[1].fetch, d[1].rc.Root.Reference).block) = d[1].rc.BlockSize
    /\ Sum256(Fetch(d[1].fetch, d[1].rc.Root.Reference).block, d[1].h).v
          = d[1].rc.Root.Reference
    /\ RootHash(Fetch(d[1].fetch, d[1].rc.Root.Reference).block) # d[1].rc.Root.Key

\* C20: when the level is above 0 and the root block passes the size and
\* reference checks but the hash of its plain text is not the key of the
\* capability, the first Next returns false with ErrInvalidKey before any
\* child is pushed, any other block fetched or any leaf published.  The
\* key is checked nowhere else: not at level 0, not below the root.
C20_VerifyKey ==
    d # <<>> =>
        /\ (RootKeyMismatch /\ dret # "none") =>
              /\ dret = "false"
              /\ d[1].err = "ErrInvalidKey"
              /\ d[1].stack = <<>>
              /\ d[1].fetched = <<[ref |-> d[1].rc.Root, level |-> d[1].rc.Level]>>
              /\ yielded = <<>>
        /\ d[1].err = "ErrInvalidKey" => RootKeyMismatch
        /\ (AtLeaf /\ d[1].stack # <<>>) => (dret = "true" /\ d[1].err = "nil")

\* The first Next returned false with ErrInvalidKey for a tree of two
\* levels whose capability has a wrong key.
C20_Witness ==
    /\ RootKeyMismatch
    /\ dret = "false"
    /\ d[1].err = "ErrInvalidKey"
    /\ d[1].rc.Level = 2
    /\ Len(d[1].fetched) = 1

\* fetch returned, for the node fetched last, a block whose length is not
\* the block size of the capability.
WrongSizeFetched ==
    /\ d # <<>>
    /\ d[1].fetched # <<>>
    /\ LastBlock.err = "nil"
    /\ Len(LastBlock.block) # d[1].rc.BlockSize

\* C21: whenever fetch returns without error a block whose length is not
\* the block size of the capability, Next returns false with
\* ErrInvalidBlockSize; the length is compared before the hash, so that
\* the block is never reported as ErrInvalidBlock, and it is neither hashed
\* nor deciphered: the call leaves the table of hash and key-stream values
\* as it was.
C21_InvalidBlockSize ==
    /\ [](WrongSizeFetched =>
             /\ dret = "false"
             /\ d[1].err = "ErrInvalidBlockSize"
             /\ DecoderBlock(d[1]) = <<>>)
    /\ [][(WrongSizeFetched' /\ d'[1].fetched # d[1].fetched) =>
             (d'[1].h = d[1].h /\ yielded' = yielded)]_vars

\* Next returned false with ErrInvalidBlockSize at a leaf longer than the
\* block size, after a leaf was published.
C21_Witness ==
    /\ WrongSizeFetched
    /\ d[1].err = "ErrInvalidBlockSize"
    /\ Len(LastBlock.block) > d[1].rc.BlockSize
    /\ LastFetched.level = 0
    /\ Len(yielded) >= 1

\* fetch returned an error for the node fetched last.
FetchFailed ==
    /\ d # <<>>
    /\ d[1].fetched # <<>>
    /\ LastBlock.err # "nil"

\* C22: when fetch returns an error, the Next in progress returns false
\* and Err() is that very error; once a Next has set an error, every later
\* Next returns false, calls fetch for nothing, publishes nothing and
\* leaves Err() as it is.
C22_StickyError ==
    /\ [](FetchFailed => (dret = "false" /\ d[1].err = LastBlock.err))
    /\ [][(d # <<>> /\ d[1].err # "nil") =>
             /\ dret' = "false"
             /\ d'[1].err = d[1].err
             /\ d'[1].fetched = d[1].fetched
             /\ d'[1].h = d[1].h
             /\ yielded' = yielded]_vars

\* fetch failed at a leaf that is not the last of the nodes to visit, after
\* a leaf was published.
C22_Witness ==
    /\ FetchFailed
    /\ d[1].err = "not found"
    /\ d[1].stack # <<>>
    /\ Len(yielded) >= 1

\* C23: whatever fetch returns, Decoder.Next never panics.
C23_NeverPanics == dret # "panic"

\* A call of ParseReadCapabilityURN on what URN returned for a capability.
RoundTripped ==
    /\ fn # <<>>
    /\ fn[1].kind = "rc"
    /\ Len(fn[1].calls) = 2
    /\ fn[1].calls[1].call = "URN"

\* C24: for every capability whose URN() succeeds, ParseReadCapabilityURN
\* of that URN succeeds and returns a capability Equal to it.
C24_URNRoundTrip ==
    RoundTripped =>
        /\ fn[1].calls[2].res.err = "nil"
        /\ Equal(fn[1].calls[2].res.rc, fn[1].arg)

\* A call of MarshalBinary on the capability given.
Marshalled ==
    /\ fn # <<>>
    /\ fn[1].kind = "rc"
    /\ fn[1].calls # <<>>
    /\ fn[1].calls[1].call = "MarshalBinary"

\* C25: MarshalBinary of a capability of block size 1024 or 32768 and of
\* level 0..255 returns no error and exactly the bytes of the format: the
\* byte 0x0A or 0x0F, the level, the Reference, the Key; for any other
\* block size, and for a level above 255, it returns an error and no bytes.
C25_MarshalBinary ==
    Marshalled =>
        /\ (fn[1].arg.BlockSize \in {1024, 32768} /\ fn[1].arg.Level \in 0..255) =>
              /\ fn[1].calls[1].res.err = "nil"
              /\ Len(fn[1].calls[1].res.data) = marshalledLen
              /\ fn[1].calls[1].res.data =
                    <<IF fn[1].arg.BlockSize = 1024 THEN 10 ELSE 15, fn[1].arg.Level,
                      fn[1].arg.Root.Reference, fn[1].arg.Root.Key>>
        /\ (fn[1].arg.BlockSize \notin {1024, 32768} \/ fn[1].arg.Level > 255) =>
              /\ fn[1].calls[1].res.err # "nil"
              /\ fn[1].calls[1].res.data = <<>>

\* MarshalBinary refused a capability of block size 32768 for its level.
C25_Witness ==
    /\ Marshalled
    /\ fn[1].arg.BlockSize = 32768
    /\ fn[1].arg.Level = 256
    /\ fn[1].calls[1].res.err = "level too large"

\* A call of UnmarshalBinary on the data given.
Unmarshalled ==
    /\ fn # <<>>
    /\ fn[1].kind = "data"
    /\ fn[1].calls # <<>>

\* C26: UnmarshalBinary returns an error exactly when the data is shorter
\* than a binary capability or its first byte is neither 0x0A nor 0x0F,
\* whatever that byte is; otherwise the block size is that of the first
\* byte, the level is byte 1, the Reference and the Key are the bytes that
\* follow, and what comes after them is ignored.
C26_UnmarshalBinary ==
    Unmarshalled =>
        IF Len(fn[1].arg) < marshalledLen \/ fn[1].arg[1] \notin {10, 15}
        THEN fn[1].calls[1].res.err # "nil"
        ELSE /\ fn[1].calls[1].res.err = "nil"
             /\ fn[1].calls[1].res.rc =
                   [BlockSize |-> IF fn[1].arg[1] = 10 THEN 1024 ELSE 32768,
                    Level |-> fn[1].arg[2],
                    Root |-> [Reference |-> fn[1].arg[3],
                              Key |-> fn[1].arg[3 + ReferenceSize]]]

\* UnmarshalBinary refused data of more than the full length whose first
\* byte is a shift count of 64 + 10.
C26_Witness ==
    /\ Unmarshalled
    /\ Len(fn[1].arg) > marshalledLen
    /\ fn[1].arg[1] = 74
    /\ fn[1].calls[1].res.err = "unsupported block size"

\* A call of ParseReadCapabilityURN on the string given.
Parsed ==
    /\ fn # <<>>
    /\ fn[1].kind = "urn"
    /\ fn[1].calls # <<>>

HasPrefix(str) == Len(str) >= 9 /\ SubSeq(str, 1, 9) = urnPrefix

\* str is unpadded Base32: characters of the alphabet, as many as some
\* number of bytes is encoded to.
ValidBase32(str) ==
    /\ \A i \in 1..Len(str) : \E j \in 1..32 : encodeStd[j] = str[i]
    /\ Len(str) % 8 \in {0, 2, 4, 5, 7}

\* C27: ParseReadCapabilityURN returns an error, and does not panic, for
\* every string that does not begin with "urn:eris:", the strings shorter
\* than the prefix among them, and for every string whose remainder is not
\* unpadded Base32 or is decoded to fewer bytes than a binary capability.
C27_ParseErrors ==
    (/\ Parsed
     /\ \/ ~HasPrefix(fn[1].arg)
        \/ ~ValidBase32(SubSeq(fn[1].arg, 10, Len(fn[1].arg)))
        \/ (5 * (Len(fn[1].arg) - 9)) \div 8 < marshalledLen)
        => fn[1].calls[1].res.err \notin {"nil", "panic"}

\* A call of constructInternalNodes on the pairs given.
Constructed ==
    /\ fn # <<>>
    /\ fn[1].kind = "pairs"
    /\ fn[1].calls # <<>>

\* Cell i of node j of the pairs with a pairs to a node: the Reference or
\* the Key of the pair that falls there, zero past the last pair.
NodeCell(pairs, a, j, i) ==
    IF (j - 1) * a + ((i - 1) \div referenceKeyLen) + 1 > Len(pairs) THEN ZeroCell
    ELSE IF (i - 1) % referenceKeyLen < ReferenceSize
    THEN pairs[(j - 1) * a + ((i - 1) \div referenceKeyLen) + 1].Reference
    ELSE pairs[(j - 1) * a + ((i - 1) \div referenceKeyLen) + 1].Key

\* C30: constructInternalNodes of k >= 1 pairs returns ceil(k / arity)
\* nodes of blockSize bytes each; node j holds the pairs j*arity up to
\* min(k, (j+1)*arity) - 1 in order, each as Reference then Key, so that
\* every node but the last holds arity pairs, and what is left of the last
\* node is zero.
C30_ConstructInternalNodes ==
    Constructed =>
        /\ Len(fn[1].calls[1].res) =
              (Len(fn[1].arg.pairs) + arity(fn[1].arg.blockSize) - 1)
                  \div arity(fn[1].arg.blockSize)
        /\ \A j \in 1..Len(fn[1].calls[1].res) :
              /\ Len(fn[1].calls[1].res[j]) = fn[1].arg.blockSize
              /\ \A i \in 1..fn[1].arg.blockSize :
                    fn[1].calls[1].res[j][i] =
                       NodeCell(fn[1].arg.pairs, arity(fn[1].arg.blockSize), j, i)

\* Five pairs made three nodes of two pairs, the last one half zero.
C30_Witness ==
    /\ Constructed
    /\ Len(fn[1].arg.pairs) = 5
    /\ Len(fn[1].calls[1].res) = 3
    /\ fn[1].calls[1].res[3] = <<fn[1].arg.pairs[5].Reference, fn[1].arg.pairs[5].Key,
                           ZeroCell, ZeroCell>>

\* The splitter's source is one that fails, and where: Reset was not called.
SourceFails == sp # <<>> /\ sp[1].r.failAt # -1
FailAt == sp[1].r.failAt

\* C28: when the source returns an error that is not end-of-input, be it
\* after a partial read, Next returns false and Err() is that error; the
\* blocks yielded before are the whole blocks read before the failure,
\* none is padded from the partial data; every later Next returns false
\* and does not read the source; after Reset the splitter reads the new
\* source and yields its blocks as if it were new.
C28_SplitterErrors ==
    /\ [](SourceFails =>
             /\ Len(split) <= FailAt \div SplitBlockSize
             /\ \A i \in 1..Len(split) :
                   split[i] = SubSeq(SplitContent, (i - 1) * SplitBlockSize + 1,
                                     i * SplitBlockSize)
             /\ sok = "false" =>
                   /\ sp[1].err = "io"
                   /\ sp[1].r.errs = 1
                   /\ Len(split) = FailAt \div SplitBlockSize)
    /\ [][(sp # <<>> /\ sp[1].err # "nil" /\ sp'[1].r.failAt = sp[1].r.failAt) =>
             (sok' = "false" /\ sp' = sp /\ split' = split)]_vars
    /\ []((sp # <<>> /\ ~SourceFails) =>
             /\ sp[1].err = "nil"
             /\ \A i \in 1..Len(split) : split[i] = PaddedBlock(i)
             /\ sok = "false" => Len(split) = Len(SplitContent) \div SplitBlockSize + 1)

\* The source failed after a partial read of the second block, a second
\* Next returned false as well, and the one block yielded is the first.
C28_Witness ==
    /\ SourceFails
    /\ sok = "false"
    /\ sp[1].err = "io"
    /\ FailAt % SplitBlockSize # 0
    /\ Len(split) = 1
    /\ sp[1].buf # split[1]

\* After the failure and Reset the splitter yielded every block of the
\* content, the padded last one included.
C28_WitnessReset ==
    /\ sp # <<>>
    /\ ~SourceFails
    /\ sok = "false"
    /\ Len(split) >= 2
    /\ sp[1].r.errs = 0

\* C29: in the current Encoder every internal node of a level is
\* enciphered once and contributes one pair, whatever nodes are duplicates
\* of blocks already emitted: when Next returns true within a level, the
\* pair list holds one pair for each node of the level gone through so far
\* and never more pairs than the level has nodes, so that the list holds
\* exactly one pair a node when the level is left.
C29_OnePairPerNode ==
    (e.ver = "cur" /\ e.state = 1 /\ ret = "true") =>
        /\ e.internalNodePos <= Len(e.internalNodes)
        /\ Len(e.referenceKeyPairs) = e.internalNodePos

\* decodeInternalNode was called on the first node made of the pairs given.
NodeRoundTripped ==
    /\ fn # <<>>
    /\ fn[1].kind = "pairs"
    /\ Len(fn[1].calls) = 2

\* C31: for a list of one to arity pairs, none with a zero Reference,
\* decodeInternalNode of the one node constructInternalNodes makes of the
\* list returns the list, in order and without error, also when the node
\* is full and no zero Reference ends it.
C31_NodeRoundTrip ==
    (/\ NodeRoundTripped
     /\ Len(fn[1].arg.pairs) <= arity(fn[1].arg.blockSize)
     /\ \A i \in 1..Len(fn[1].arg.pairs) : fn[1].arg.pairs[i].Reference # ZeroCell)
        => /\ Len(fn[1].calls[1].res) = 1
           /\ LastCall.res = [refs |-> fn[1].arg.pairs, err |-> "nil"]

\* A full node of three pairs, one of them with a zero Key, was decoded to
\* its three pairs.
C31_Witness ==
    /\ NodeRoundTripped
    /\ Len(fn[1].arg.pairs) = 3
    /\ arity(fn[1].arg.blockSize) = 3
    /\ fn[1].arg.pairs[2].Key = ZeroCell
    /\ Len(LastCall.res.refs) = 3

\* A function was called on the plaintext node given.
NodeDecoded(call) ==
    /\ fn # <<>>
    /\ fn[1].kind = "node"
    /\ fn[1].calls # <<>>
    /\ LastCall.call = call

\* The first slot (from 0) of the node whose Reference is zero, the number
\* of slots when there is none.
RECURSIVE FirstZeroSlot(_, _)
FirstZeroSlot(node, k) ==
    IF k * referenceKeyLen >= Len(node) \/ node[k * referenceKeyLen + 1] = ZeroCell
    THEN k
    ELSE FirstZeroSlot(node, k + 1)

\* A cell after the zero Reference of slot k is not zero.
DirtyAfter(node, k) ==
    \E i \in (k * referenceKeyLen + ReferenceSize + 1)..Len(node) : node[i] # ZeroCell

\* C32: decodeInternalNode ends the list at the first slot whose Reference
\* is zero and returns the pairs before it; when a cell after that
\* Reference is not zero, the Key of the slot included, it returns
\* ErrInvalidPadding and no pair, and the Decoder leaves its stack as it is.
C32_NodePadding ==
    /\ NodeDecoded("decodeInternalNode") =>
          IF DirtyAfter(fn[1].arg.node, FirstZeroSlot(fn[1].arg.node, 0))
          THEN LastCall.res = [refs |-> <<>>, err |-> "ErrInvalidPadding"]
          ELSE /\ LastCall.res.err = "nil"
               /\ Len(LastCall.res.refs) = FirstZeroSlot(fn[1].arg.node, 0)
               /\ \A k \in 1..Len(LastCall.res.refs) :
                     /\ LastCall.res.refs[k].Reference =
                           fn[1].arg.node[(k - 1) * referenceKeyLen + 1]
                     /\ LastCall.res.refs[k].Key =
                           fn[1].arg.node[(k - 1) * referenceKeyLen + ReferenceSize + 1]
    /\ NodeDecoded("Decoder.decodeInternalNode") =>
          IF DirtyAfter(fn[1].arg.node, FirstZeroSlot(fn[1].arg.node, 0))
          THEN /\ LastCall.res.err = "ErrInvalidPadding"
               /\ LastCall.res.d = DecoderAtWork(fn[1].arg.blockSize)
          ELSE /\ LastCall.res.err = "nil"
               /\ Len(LastCall.res.d.stack) = 1 + FirstZeroSlot(fn[1].arg.node, 0)

\* A node with one pair, a zero Reference after it and a Key that is not
\* zero in that slot was refused.
C32_Witness ==
    /\ NodeDecoded("decodeInternalNode")
    /\ FirstZeroSlot(fn[1].arg.node, 0) = 1
    /\ fn[1].arg.node[referenceKeyLen + ReferenceSize + 1] # ZeroCell
    /\ LastCall.res.err = "ErrInvalidPadding"

\* How many nodes the tree of the content has at a level: the leaves, and
\* one node for every arity nodes (or what is left of them) below.
RECURSIVE NodesAt(_)
NodesAt(level) ==
    IF level = 0 THEN NumLeaves
    ELSE (NodesAt(level - 1) + arity(e.blockSize) - 1) \div arity(e.blockSize)

\* How many times the Decoder has called fetch for a node of a level.
FetchedAt(level) ==
    Cardinality({i \in 1..Len(d[1].fetched) : d[1].fetched[i].level = level})

\* The levels of the nodes a step has fetched, in the order of the calls.
NewLevels ==
    [i \in 1..(Len(d'[1].fetched) - Len(d[1].fetched)) |->
        d'[1].fetched[Len(d[1].fetched) + i].level]

\* C33: over a complete decode of a well-formed tree fetch is called once
\* for each occurrence of a node in the tree, a block referred to k times
\* being fetched k times; the root of a capability of level > 0 is fetched
\* once, for Verify-Key and expansion together; and a Next that returns
\* true has fetched the internal nodes of the path not yet expanded, from
\* the top down, and then one leaf.
C33_OneFetchPerNode ==
    /\ []((WellFormed /\ dret = "false") =>
             \A level \in 0..d[1].rc.Level : FetchedAt(level) = NodesAt(level))
    /\ []((WellFormed /\ d[1].fetched # <<>>) =>
             /\ d[1].fetched[1] = [ref |-> d[1].rc.Root, level |-> d[1].rc.Level]
             /\ FetchedAt(d[1].rc.Level) <= NodesAt(d[1].rc.Level)
             /\ Len(d[1].fetched) <= d[1].rc.Level + 1 => FetchedAt(d[1].rc.Level) = 1)
    /\ [][(WellFormed /\ dret' = "true") =>
             /\ Len(NewLevels) >= 1
             /\ NewLevels[Len(NewLevels)] = 0
             /\ \A i \in 1..(Len(NewLevels) - 1) :
                   NewLevels[i] > 0 /\ NewLevels[i + 1] = NewLevels[i] - 1]_vars

\* The decode of a tree of two levels is complete: six calls of fetch, for
\* three leaves, two nodes and the root, two of them for the same block.
C33_Witness ==
    /\ WellFormed
    /\ dret = "false"
    /\ d[1].rc.Level = 2
    /\ Len(d[1].fetched) = 6
    /\ FetchedAt(0) = 3
    /\ \E i, j \in 1..Len(d[1].fetched) : i # j /\ d[1].fetched[i] = d[1].fetched[j]

Max(a, b) == IF a > b THEN a ELSE b

\* C34: whatever the capability and whatever fetch returns, every frame on
\* the stack has a level from 0 to max(rc.Level - 1, 0); the first node
\* fetched is the root, every other node fetched is at most one level
\* below the one fetched before it and below the root, so that a leaf is
\* reached after rc.Level descents; no frame has a level below zero and
\* none of level 0 is expanded, so that the only panic left is the one
\* after an internal node without children.
C34_FrameLevels ==
    d # <<>> =>
        /\ \A i \in 1..Len(d[1].stack) :
              d[1].stack[i].level \in 0..Max(d[1].rc.Level - 1, 0)
        /\ d[1].fetched # <<>> => d[1].fetched[1].level = Max(d[1].rc.Level, 0)
        /\ \A i \in 2..Len(d[1].fetched) :
              /\ d[1].fetched[i].level \in 0..Max(d[1].rc.Level - 1, 0)
              /\ d[1].fetched[i].level >= d[1].fetched[i - 1].level - 1
              /\ d[1].fetched[i - 1].level = d[1].rc.Level =>
                    d[1].fetched[i].level = d[1].rc.Level - 1
        /\ dret = "panic" => (d[1].stack = <<>> /\ LastFetched.level > 0)

\* A leaf was fetched two descents below the root of a capability of
\* level 2, a frame of level 1 waiting on the stack.
C34_Witness ==
    /\ d # <<>>
    /\ d[1].rc.Level = 2
    /\ Len(d[1].fetched) = 3
    /\ LastFetched.level = 0
    /\ \E i \in 1..Len(d[1].stack) : d[1].stack[i].level = 1

\* C35: in every state, those within a call of Next included, the stack
\* holds at most rc.Level * (arity - 1) + 1 frames.
C35_StackBound ==
    d # <<>> =>
        d[1].peak <= d[1].rc.Level * (arity(d[1].rc.BlockSize) - 1) + 1

\* C35 for capabilities of any level: the stack holds at most
\* max(rc.Level, 0) * (arity - 1) + 1 frames, whatever the content and
\* whatever fetch returns.
C35_StackBoundAnyLevel ==
    d # <<>> =>
        /\ Len(d[1].stack) <= d[1].peak
        /\ d[1].peak <= Max(d[1].rc.Level, 0) * (arity(d[1].rc.BlockSize) - 1) + 1

\* The stack held 2 * (2 - 1) + 1 frames within a call of Next.
C35_Witness ==
    /\ d # <<>>
    /\ d[1].rc.Level = 2
    /\ arity(d[1].rc.BlockSize) = 2
    /\ d[1].peak = 3
    /\ Len(d[1].stack) = 2

\* DecodeRecursive was called on what the Decoder was given.
BothDecoded == d # <<>> /\ fn # <<>> /\ fn[1].kind = "decode"

\* C36: on every capability and every store the Decoder finishes with
\* Err() = nil exactly when DecodeRecursive returns no error, and then the
\* blocks of the Decoder, one after the other, are the bytes that
\* DecodeRecursive returns.
C36_SameAsRecursive ==
    BothDecoded =>
        /\ (dret = "false" /\ d[1].err = "nil") <=> fn[1].calls[1].res.err = "nil"
        /\ fn[1].calls[1].res.err = "nil" => decoded = fn[1].calls[1].res.out

\* Encoder.reset was called, in SpecReset.
WasReset == first # <<>> /\ "fresh" \in DOMAIN first[1]

\* C37: after any calls of Next, reset(r) makes the Encoder what
\* NewEncoder makes over r with the same secret and block size (state 0,
\* no error, level 0, nothing seen, no pair, a zero root pair, no internal
\* node, position 0), its splitter, if it has one, without error, not
\* done, over r and with a buffer of blockSize bytes; and the run after
\* the reset emits the blocks and ends with the capability of a run of a
\* new Encoder over r.
C37_Reset ==
    WasReset =>
        /\ ret = "none" =>
              /\ [e EXCEPT !.h = <<>>, !.splitter = <<>>]
                    = NewEncoder(e.content, e.secret, e.blockSize, e.ver)
              /\ e.splitter # <<>> =>
                    /\ e.splitter[1].err = "nil"
                    /\ ~e.splitter[1].done
                    /\ e.splitter[1].r = e.content
                    /\ Len(e.splitter[1].buf) = e.blockSize
        /\ IsPrefix(emitted, first[1].fresh.emitted)
        /\ ret \in {"false", "hang", "panic"} =>
              /\ ret = first[1].fresh.res
              /\ emitted = first[1].fresh.emitted
              /\ e.err = first[1].fresh.e.err
              /\ Capability(e) = Capability(first[1].fresh.e)

\* A reset after a failed Next that had emitted a block, and a run after
\* it that ended with a tree of two levels above other contents.
C37_Witness ==
    /\ WasReset
    /\ first[1].err # "nil"
    /\ first[1].emitted > 0
    /\ ret = "false"
    /\ e.err = "nil"
    /\ e.level = 2
    /\ emitted = first[1].fresh.emitted

\* The padded block that ends the content data.
TerminalBlock(data, blockSize) ==
    appendPadInput(SubSeq(data, Len(data) - (Len(data) % blockSize) + 1, Len(data)),
                   blockSize)

\* C38: a splitter that has returned its padded terminal block is done:
\* every later Next returns false with Err() = nil and reads nothing from
\* the source, so that a source gets exactly one such block, the last of
\* its blocks; only Reset makes the splitter read again.
C38_Done ==
    /\ [](sp # <<>> /\ sp[1].done =>
             /\ sp[1].err = "nil"
             /\ Len(split) = Len(sp[1].r.data) \div sp[1].blockSize + 1
             /\ split[Len(split)] = TerminalBlock(sp[1].r.data, sp[1].blockSize))
    /\ [](sp # <<>> /\ ~sp[1].done =>
             /\ Len(split) <= Len(sp[1].r.data) \div sp[1].blockSize
             /\ Flatten(split, 1) = SubSeq(sp[1].r.data, 1, Len(split) * sp[1].blockSize))
    /\ [][sp # <<>> /\ sp[1].done /\ first' = first =>
             /\ sok' = "false"
             /\ sp'[1].err = "nil"
             /\ sp'[1].r = sp[1].r
             /\ split' = split]_vars

\* A splitter that was done with one source, was called again and returned
\* false, was reset, and is done with a second source of another length.
C38_Witness ==
    /\ sp # <<>>
    /\ first # <<>>
    /\ "split" \in DOMAIN first[1]
    /\ Len(first[1].split) = 3
    /\ sp[1].done
    /\ sok = "false"
    /\ Len(split) = 2
    /\ sp[1].r.reads >= 2

\* The nodes of the tree below the frames on stack (the leftmost first),
\* in the order of a walk from left to right, parents before children:
\* acc so far, table h.
RECURSIVE Preorder(_, _, _, _, _)
Preorder(stack, acc, store, blockSize, h) ==
    IF stack = <<>> THEN acc
    ELSE LET curr == Head(stack)
             dn == dereferenceNode(store, curr.ref, curr.level, blockSize, h)
             dec == decodeInternalNode(dn.block, blockSize)
             kids == [i \in 1..Len(dec.refs) |-> [ref |-> dec.refs[i], level |-> curr.level - 1]]
         IN IF curr.level > 0 /\ dn.err = "nil" /\ dec.err = "nil"
            THEN Preorder(kids \o Tail(stack), Append(acc, curr), store, blockSize, dn.h)
            ELSE Preorder(Tail(stack), Append(acc, curr), store, blockSize, dn.h)

\* The blocks the Encoder emits for the content, and the nodes of its tree.
HonestStore == SeqToSet(first[1].emitted)
HonestNodes ==
    Preorder(<<[ref |-> first[1].rc.Root, level |-> first[1].rc.Level]>>, <<>>,
             HonestStore, e.blockSize, d[1].h)

\* The Decoder has the capability of the Encoder and a store that holds
\* nothing but blocks of the Encoder, some of them missing or corrupted.
Damaged ==
    /\ d # <<>>
    /\ first # <<>>
    /\ d[1].rc = first[1].rc
    /\ \A b \in d[1].fetch : \E hb \in HonestStore : hb.ref = b.ref

\* The leaves left of the node fetched last, as frames and in plain text.
IsLeafFrame(f) == f.level = 0
LeavesBefore == SelectSeq(SubSeq(d[1].fetched, 1, Len(d[1].fetched) - 1), IsLeafFrame)
LeafBefore(i) ==
    dereferenceNode(d[1].fetch, LeavesBefore[i].ref, 0, d[1].rc.BlockSize, d[1].h).block

\* C39: when a decode fails at some node, the blocks published are, in
\* order, the leaves left of that node.  Over a store that differs from
\* what the Encoder emitted in missing and corrupted blocks only, the
\* nodes are fetched in the order of the tree of the Encoder, the bytes
\* published are a prefix of the content, and nothing is published of the
\* node that failed.
C39_PublishedPrefix ==
    /\ (d # <<>> /\ d[1].err # "nil") =>
          /\ dret = "false"
          /\ d[1].fetched # <<>>
          /\ Len(yielded) = Len(LeavesBefore)
          /\ \A i \in 1..Len(yielded) : yielded[i] = LeafBefore(i)
    /\ Damaged =>
          /\ IsPrefix(decoded, TheContent)
          /\ dret \in {"false", "panic"} => IsPrefix(d[1].fetched, HonestNodes)
          /\ d[1].err # "nil" =>
                /\ LastNode.err = d[1].err
                /\ \A i \in 1..Len(yielded) : yielded[i] = Leaf(i)

\* A decode that published the first leaf of three and failed at the
\* second, a leaf that is not in the store.
C39_Witness ==
    /\ Damaged
    /\ d[1].err = "not found"
    /\ LastFetched.level = 0
    /\ Len(yielded) = 1
    /\ NumLeaves = 3
    /\ decoded # <<>>

====
